---- MODULE Spec2Model ----
(***************************************************************************)
(* Model of the Navirec integration's resilient streaming core:            *)
(*   - the command poller      (custom_components/navirec/commands.py)     *)
(*   - the stream transport    (custom_components/navirec/api.py,          *)
(*                              NavirecStreamClient)                       *)
(*   - the streaming supervisor (custom_components/navirec/coordinator.py, *)
(*                              NavirecCoordinator)                        *)
(*                                                                         *)
(* Timestamps and delays are integers (seconds).  None is modelled as 0    *)
(* wherever the code tests a value only for truthiness / presence.         *)
(***************************************************************************)
EXTENDS Integers, Sequences, FiniteSets, TLC

VARIABLES
    \* ---- command poller (_poll_command_status) ----
    poll_pc,        \* "idle" | "check" (line 106) | "get" (line 130) | "done"
    delay,          \* local `delay`
    now,            \* datetime.now(UTC)
    expires_at,     \* argument expires_at; None is 0
    fired,          \* hass.bus.async_fire calls, in order
    notified,       \* persistent_notification.async_create calls, in order
    gets,           \* number of async_get_device_command calls (saturating)
    sleeps,         \* number of asyncio.sleep(delay) calls (saturating)
    last_sleep,     \* argument of the most recent asyncio.sleep(delay); 0 if none
    last_op,        \* the poller step taken last
    \* ---- NavirecStreamClient: the transport built last (api.py) ----
    client,         \* [response, connected, should_stop, reconnect_delay, last_updated_at]
    policy_log,     \* what get_reconnect_delay returned, 0 for a reset, in order
    \* ---- NavirecCoordinator (coordinator.py) ----
    should_stop,    \* self._should_stop
    stream_client,  \* self._stream_client is not None (it then refers to `client`)
    stream_task,    \* self._stream_task is not None
    initial_state_received,
    data,           \* self.data: vehicle id -> snapshot (NoState when absent)
    last_updated_at,\* self._last_updated_at; None is 0
    store,          \* what self._store holds on disk; 0 when nothing was saved
    notifications,  \* number of _async_notify_listeners calls
    \* ---- the background task running _async_stream_loop ----
    task_pc,        \* "none" | "created" | "connect" | "iter" | "save" |
                    \* "sleep_auth" | "sleep_rate" | "sleep_comm" |
                    \* "sleep_unexpected" | "done"
    cancel_pending, \* task.cancel() was called, CancelledError not yet thrown
    cancel_seen,    \* CancelledError was thrown into this task
    sleep_arg,      \* argument of the asyncio.sleep the loop called last
    last_exc,       \* the exception the try block of this iteration raised
    comm_errors,    \* CommunicationErrors caught since the last successful connect
    lines_read,     \* lines received from the server so far
    pending_save,   \* the value an unfinished store.async_save is writing
    \* ---- the caller of async_start_streaming / async_stop_streaming ----
    call_pc,        \* "idle" | "start_load" | "stop_wait"
    stopped,        \* async_stop_streaming returned, no start since
    \* ---- the build ----
    ctor_raises,    \* NavirecStreamClient(...) at coordinator.py 118-124 raises
    \* ---- the server ----
    retry_after_header, \* the Retry-After header of the last 429 answer
    leaked,         \* a transport was replaced while its response was open
    listener_data,  \* the table async_set_updated_data handed to listeners last
    \* ---- what _async_handle_event was called with (direct calls) ----
    dispatched,     \* the event of the last call that returned or reached its save
    n_dispatched,   \* number of such calls
    last_event,     \* per vehicle: the last vehicle_state event that names it
    resolved,       \* number of vehicle_state events that named a vehicle
    last_carried,   \* updated_at of the last vehicle_state event that had one
    \* ---- one HTTP exchange of async_connect or _async_request (api.py) ----
    answer,         \* [api, status, retry_after]: what the server answered last
    outcome,        \* [exc, retry_after]: what the call raised ("none": returned)
    n_requests,     \* number of exchanges made
    \* ---- one run of the generator async_iter_events (api.py) ----
    gen_pc,         \* "none" | "running" | "ended" | "comm_error" | "error" |
                    \* "unexpected"
    received,       \* the lines the response body delivered, in order
    yielded,        \* the events the generator yielded, in order
    closes,         \* number of response.close() calls
    n_disconnects,  \* number of async_disconnect calls
    \* ---- one call of _async_get_paginated (api.py) ----
    pages,          \* the pages the server holds, in order
    next_url,       \* local `next_url`: the page to fetch next; None is 0
    results,        \* local `results`
    n_gets,         \* number of _async_request calls
    endpoint,       \* the catalog fetched: "accounts" | "vehicles" | "sensors"
    \* ---- one call of execute_action (commands.py) ----
    exec_pc,        \* "idle" | "post" (line 55) | "returned" | "raised"
    posts,          \* number of async_create_device_command calls
    spawned,        \* the names async_create_background_task was given, in order
    exec_result,    \* the command returned, or the exception raised
    \* ---- overlapping calls of async_start_streaming ----
    starts,         \* per caller: "idle" | "load" (suspended at line 83) |
                    \* "returned"
    orphans,        \* loop tasks alive that self._stream_task no longer names
    \* ---- the host's config entries and services (__init__.py) ----
    entries,        \* per config entry: "absent" | "not_loaded" | "loaded" |
                    \* "failed_unload"
    has_service,    \* hass.services.has_service(DOMAIN, "execute_action")
    n_setups        \* number of async_setup_entry calls

pollVars == <<poll_pc, delay, now, expires_at, fired, notified, gets, sleeps,
              last_sleep, last_op>>

tableVars == <<data, last_updated_at, store, notifications,
               initial_state_received, pending_save, listener_data>>

callLog == <<dispatched, n_dispatched, last_event, resolved, last_carried>>

httpVars == <<answer, outcome, n_requests>>

genVars == <<gen_pc, received, yielded, closes, n_disconnects>>

pageVars == <<pages, next_url, results, n_gets, endpoint>>

execVars == <<exec_pc, posts, spawned, exec_result>>

raceVars == <<starts, orphans>>

setupVars == <<entries, has_service, n_setups>>

hostVars == <<exec_pc, posts, spawned, exec_result, starts, orphans, entries,
              has_service, n_setups>>

apiVars == <<answer, outcome, n_requests, gen_pc, received, yielded, closes,
             n_disconnects, pages, next_url, results, n_gets, endpoint,
             hostVars>>

callVars == <<should_stop, stream_task, call_pc, stopped, cancel_pending>>

streamVars == <<client, should_stop, stream_client, stream_task,
                initial_state_received, data, last_updated_at, store,
                notifications, task_pc, cancel_pending, cancel_seen, sleep_arg,
                last_exc, comm_errors, lines_read, pending_save, call_pc, stopped,
                ctor_raises, retry_after_header, leaked, listener_data,
                dispatched, n_dispatched, last_event, resolved, last_carried,
                answer, outcome, n_requests, gen_pc, received, yielded, closes,
                n_disconnects,
                pages, next_url, results, n_gets, endpoint, hostVars>>

vars == <<poll_pc, delay, now, expires_at, fired, notified, gets, sleeps,
          last_sleep, last_op, client, policy_log, should_stop, stream_client,
          stream_task, initial_state_received, data, last_updated_at, store,
          notifications, task_pc, cancel_pending, cancel_seen, sleep_arg,
          last_exc, comm_errors, lines_read, pending_save, call_pc, stopped,
          ctor_raises, retry_after_header, leaked, listener_data,
          dispatched, n_dispatched, last_event, resolved, last_carried,
          answer, outcome, n_requests, gen_pc, received, yielded, closes,
          n_disconnects, pages, next_url, results, n_gets, endpoint,
          hostVars>>

None == 0

Min(a, b) == IF a <= b THEN a ELSE b

RECURSIVE Pow(_, _)
Pow(b, e) == IF e = 0 THEN 1 ELSE b * Pow(b, e - 1)

(***************************************************************************)
(* Bounds of the model.                                                    *)
(***************************************************************************)
MaxPolls == 6       \* the counters gets / sleeps saturate here
MaxExpiry == 12     \* expires_at ranges over None and 1..MaxExpiry
StartTime == 5      \* the clock when the poll task starts
MaxLag == 1         \* extra seconds a sleep or a GET may take
MaxTime == MaxExpiry + 1    \* the clock saturates above every expiry

(***************************************************************************)
(* Command polling constants.  commands.py imports them from const.py, but *)
(* the const.py of this tree does not define them: the values are chosen   *)
(* to fit the description "short initial value, backoff factor, clamped to *)
(* a max".                                                                 *)
(***************************************************************************)
COMMAND_POLL_INITIAL_DELAY == 1
COMMAND_POLL_BACKOFF_FACTOR == 2
COMMAND_POLL_MAX_DELAY == 30
COMMAND_TERMINAL_STATES == {"acknowledged", "failed", "expired"}

\* The states a polled DeviceCommand may report ("none" is state = None).
CommandStates == {"none", "queued", "sent", "acknowledged", "failed", "expired"}

(***************************************************************************)
(* commands.py                                                             *)
(***************************************************************************)

\* line 108: `if expires_at and datetime.now(UTC) >= expires_at`
IsExpired_Reversed(t, e) == e # None /\ t <= e
IsExpired(t, e) == e # None /\ t >= e

\* lines 135 and 167: delay = min(delay * FACTOR, MAX)
GrowDelay_NoClamp(d) == d * COMMAND_POLL_BACKOFF_FACTOR
GrowDelay(d) == Min(d * COMMAND_POLL_BACKOFF_FACTOR, COMMAND_POLL_MAX_DELAY)

\* line 138: `command.state in COMMAND_TERMINAL_STATES`
IsTerminal(s) == s \in COMMAND_TERMINAL_STATES

\* _fire_result_event: the event data's state
FireResultEvent(s) == [state |-> s]

\* _create_notification: the title chosen from the state
NotificationTitle(s) ==
    IF s = "acknowledged" THEN "succeeded"
    ELSE IF s = "expired" THEN "timed out"
    ELSE "failed"

CreateNotification(s) == [state |-> s, title |-> NotificationTitle(s)]

Advance(t, d) == Min(t + d, MaxTime)
Count(n) == Min(n + 1, MaxPolls)

\* lines 108-126: the expiry check succeeds: one event, one notification, return
PollExpire ==
    /\ poll_pc = "check"
    /\ IsExpired(now, expires_at)
    /\ fired' = Append(fired, FireResultEvent("expired"))
    /\ notified' = Append(notified, CreateNotification("expired"))
    /\ poll_pc' = "done"
    /\ last_op' = "expire"
    /\ UNCHANGED <<delay, now, expires_at, gets, sleeps, last_sleep>>
    /\ UNCHANGED <<streamVars, policy_log>>

\* lines 108, 128: not expired, `await asyncio.sleep(delay)`
PollSleep ==
    /\ poll_pc = "check"
    /\ ~IsExpired(now, expires_at)
    /\ \E lag \in 0..MaxLag : now' = Advance(now, delay + lag)
    /\ sleeps' = Count(sleeps)
    /\ last_sleep' = delay
    /\ poll_pc' = "get"
    /\ last_op' = "sleep"
    /\ UNCHANGED <<delay, expires_at, fired, notified, gets>>
    /\ UNCHANGED <<streamVars, policy_log>>

\* lines 130-136: the GET or the validation of its answer raises
PollGetFails_Emits ==
    /\ poll_pc = "get"
    /\ \E lag \in 0..MaxLag : now' = Advance(now, lag)
    /\ gets' = Count(gets)
    /\ delay' = GrowDelay(delay)
    /\ fired' = Append(fired, FireResultEvent("failed"))
    /\ notified' = notified
    /\ poll_pc' = "check"
    /\ last_op' = "get_failed"
    /\ UNCHANGED <<expires_at, sleeps, last_sleep>>
    /\ UNCHANGED <<streamVars, policy_log>>
PollGetFails ==
    /\ poll_pc = "get"
    /\ \E lag \in 0..MaxLag : now' = Advance(now, lag)
    /\ gets' = Count(gets)
    /\ delay' = GrowDelay(delay)
    /\ poll_pc' = "check"
    /\ last_op' = "get_failed"
    /\ UNCHANGED <<expires_at, fired, notified, sleeps, last_sleep>>
    /\ UNCHANGED <<streamVars, policy_log>>

\* lines 131-132, 138-164: the GET answers with a terminal state
PollGetTerminal ==
    /\ poll_pc = "get"
    /\ \E lag \in 0..MaxLag : now' = Advance(now, lag)
    /\ gets' = Count(gets)
    /\ \E s \in CommandStates :
        /\ IsTerminal(s)
        /\ fired' = Append(fired, FireResultEvent(s))
        /\ notified' = Append(notified, CreateNotification(s))
    /\ poll_pc' = "done"
    /\ last_op' = "get_terminal"
    /\ UNCHANGED <<delay, expires_at, sleeps, last_sleep>>
    /\ UNCHANGED <<streamVars, policy_log>>

\* lines 131-132, 138, 166-167: the GET answers with a non-terminal state
PollGetPending ==
    /\ poll_pc = "get"
    /\ \E lag \in 0..MaxLag : now' = Advance(now, lag)
    /\ gets' = Count(gets)
    /\ \E s \in CommandStates : ~IsTerminal(s)
    /\ delay' = GrowDelay(delay)
    /\ poll_pc' = "check"
    /\ last_op' = "get_pending"
    /\ UNCHANGED <<expires_at, fired, notified, sleeps, last_sleep>>
    /\ UNCHANGED <<streamVars, policy_log>>


\* _poll_command_status as spawned by execute_action (lines 69-79, 104)
InitPoll ==
    /\ poll_pc = "check"
    /\ delay = COMMAND_POLL_INITIAL_DELAY
    /\ now = StartTime
    /\ expires_at \in {None} \cup 1..MaxExpiry
    /\ fired = <<>>
    /\ notified = <<>>
    /\ gets = 0
    /\ sleeps = 0
    /\ last_sleep = 0
    /\ last_op = "start"

\* no command was executed: no poll task exists
NoPoll ==
    /\ poll_pc = "idle"
    /\ delay = COMMAND_POLL_INITIAL_DELAY
    /\ now = StartTime
    /\ expires_at = None
    /\ fired = <<>>
    /\ notified = <<>>
    /\ gets = 0
    /\ sleeps = 0
    /\ last_sleep = 0
    /\ last_op = "start"

\* no HTTP exchange was made
NoHttp ==
    /\ answer = [api |-> "none", status |-> 0, retry_after |-> "absent"]
    /\ outcome = [exc |-> "none", retry_after |-> 0]
    /\ n_requests = 0

\* the generator of the transport was not started
NoGen ==
    /\ gen_pc = "none"
    /\ received = <<>>
    /\ yielded = <<>>
    /\ closes = 0
    /\ n_disconnects = 0

\* no paginated fetch is made
NoPages ==
    /\ pages = <<>>
    /\ next_url = None
    /\ results = <<>>
    /\ n_gets = 0
    /\ endpoint = "none"

\* no service call, setup or unload is made
NoHost ==
    /\ exec_pc = "idle"
    /\ posts = 0
    /\ spawned = <<>>
    /\ exec_result = "none"
    /\ starts = [c \in {"a", "b"} |-> "idle"]
    /\ orphans = 0
    /\ entries = [e \in {"e1", "e2", "e3"} |-> "absent"]
    /\ has_service = FALSE
    /\ n_setups = 0

\* no REST call and no direct call of the stream client's methods is made
NoApi == NoHttp /\ NoGen /\ NoPages /\ NoHost

(***************************************************************************)
(* api.py: NavirecStreamClient                                             *)
(***************************************************************************)
STREAM_RECONNECT_MIN_DELAY == 1
STREAM_RECONNECT_MAX_DELAY == 60
STREAM_RECONNECT_MULTIPLIER == 2
DEFAULT_RETRY_AFTER == 60

\* __init__, lines 202-210
FreshClient ==
    [response |-> FALSE, connected |-> FALSE, should_stop |-> FALSE,
     reconnect_delay |-> STREAM_RECONNECT_MIN_DELAY, last_updated_at |-> None]

\* async_connect, lines 233-237: the URL always carries the account filter
\* and carries updated_at__gt (None here when it does not) when the client's
\* _last_updated_at is set
ConnectUrl(c) ==
    [account |-> TRUE,
     updated_at__gt |-> IF c.last_updated_at # None THEN c.last_updated_at
                        ELSE None]

\* async_connect on a 2xx answer, lines 242-259
ClientConnected(c) ==
    [c EXCEPT !.response = TRUE, !.connected = TRUE,
              !.reconnect_delay = STREAM_RECONNECT_MIN_DELAY]

\* async_connect raising: self._response is assigned (line 242) when the
\* answer arrived, and is left as it was when session.get itself raised
ClientConnectFailed(c, answered) ==
    [c EXCEPT !.response = (@ \/ answered)]

\* async_disconnect had line 272 been missing
AsyncDisconnect_KeepsResponse(c) ==
    [c EXCEPT !.should_stop = TRUE, !.connected = FALSE]

\* async_disconnect, lines 266-275
AsyncDisconnect(c) ==
    [c EXCEPT !.should_stop = TRUE, !.connected = FALSE, !.response = FALSE]

\* get_reconnect_delay, lines 315-322: the value returned ...
ReturnedDelay(c) == c.reconnect_delay

\* ... and the client it leaves behind
GetReconnectDelay_NoClamp(c) ==
    [c EXCEPT !.reconnect_delay = @ * STREAM_RECONNECT_MULTIPLIER]
GetReconnectDelay(c) ==
    [c EXCEPT !.reconnect_delay =
        Min(@ * STREAM_RECONNECT_MULTIPLIER, STREAM_RECONNECT_MAX_DELAY)]

\* reset_reconnect_delay, lines 324-326
ResetReconnectDelay(c) ==
    [c EXCEPT !.reconnect_delay = STREAM_RECONNECT_MIN_DELAY]

\* async_iter_events, lines 298-302: the generator tracks updated_at
TrackUpdatedAt(c, e) ==
    IF e.event = "vehicle_state" /\ e.updated_at # None
    THEN [c EXCEPT !.last_updated_at = e.updated_at]
    ELSE c

\* async_iter_events, lines 306-313: the generator ends or raises
IterationOver(c) == [c EXCEPT !.connected = FALSE]

(***************************************************************************)
(* The reconnect policy of one stream client, driven by any sequence of    *)
(* get_reconnect_delay, reset_reconnect_delay and successful connects.     *)
(***************************************************************************)
MaxLog == 8

PolicyGet ==
    /\ Len(policy_log) < MaxLog
    /\ policy_log' = Append(policy_log, ReturnedDelay(client))
    /\ client' = GetReconnectDelay(client)
    /\ UNCHANGED <<pollVars, should_stop, stream_client, stream_task,
                   listener_data,
                   initial_state_received, data, last_updated_at, store,
                   notifications, task_pc, cancel_pending, cancel_seen,
                   sleep_arg, last_exc, comm_errors, lines_read, pending_save,
                   call_pc, stopped, ctor_raises,
        retry_after_header, leaked, callLog, apiVars>>

PolicyReset ==
    /\ Len(policy_log) < MaxLog
    /\ policy_log' = Append(policy_log, 0)
    /\ client' = ResetReconnectDelay(client)
    /\ UNCHANGED <<pollVars, should_stop, stream_client, stream_task,
                   listener_data,
                   initial_state_received, data, last_updated_at, store,
                   notifications, task_pc, cancel_pending, cancel_seen,
                   sleep_arg, last_exc, comm_errors, lines_read, pending_save,
                   call_pc, stopped, ctor_raises,
        retry_after_header, leaked, callLog, apiVars>>

PolicyConnect ==
    /\ Len(policy_log) < MaxLog
    /\ policy_log' = Append(policy_log, 0)
    /\ client' = ClientConnected(client)
    /\ UNCHANGED <<pollVars, should_stop, stream_client, stream_task,
                   listener_data,
                   initial_state_received, data, last_updated_at, store,
                   notifications, task_pc, cancel_pending, cancel_seen,
                   sleep_arg, last_exc, comm_errors, lines_read, pending_save,
                   call_pc, stopped, ctor_raises,
        retry_after_header, leaked, callLog, apiVars>>

(***************************************************************************)
(* coordinator.py: NavirecCoordinator                                      *)
(***************************************************************************)
AUTH_RETRY_DELAY == 300
UNEXPECTED_RETRY_DELAY == 30
FALLBACK_RECONNECT_DELAY == 5

MaxTs == 2              \* updated_at ranges over absent (0) and 1..MaxTs
MaxLines == 2           \* lines the server sends in all
MaxConsecutive == 3     \* connects failing in a row with a CommunicationError

Vehicles == {"v1", "v2"}
NoVehicle == "none"     \* a vehicle reference holding no UUID
Speeds == {0, 42}       \* the sensor field `speed`; 0 when the payload lacks it
\* what a 429 answer may carry as Retry-After: nothing, seconds, or a date
RetryAfterHeaders == {"absent", "45", "Wed, 21 Oct 2026 07:28:00 GMT"}

\* api.py line 253: headers.get("Retry-After", "60")
HeaderOrDefault(h) == IF h = "absent" THEN "60" ELSE h

\* api.py line 253: int(...) of a decimal string; it raises ValueError otherwise
IsDecimal(s) == s \in {"45", "60"}
ParseInt(s) ==
    CASE s = "45" -> 45
      [] s = "60" -> 60
Sleeps == {"sleep_auth", "sleep_rate", "sleep_comm", "sleep_unexpected"}

NoState == [present |-> FALSE, updated_at |-> None, speed |-> 0]

\* line 196 had it kept the fields the new payload lacks
Snapshot_Merged(e) ==
    [present |-> TRUE, updated_at |-> e.updated_at,
     speed |-> IF e.speed = 0 /\ e.vehicle \in DOMAIN data
               THEN data[e.vehicle].speed ELSE e.speed]
Snapshot(e) == [present |-> TRUE, updated_at |-> e.updated_at, speed |-> e.speed]

VehicleStateEvents ==
    [event : {"vehicle_state"}, vehicle : Vehicles \cup {NoVehicle},
     updated_at : 0..MaxTs, speed : Speeds]

OtherEvents ==
    [event : {"connected", "initial_state_sent", "heartbeat", "disconnected",
              "unknown"},
     vehicle : {NoVehicle}, updated_at : {None}, speed : {0}]

StreamEvents == VehicleStateEvents \cup OtherEvents

\* no event yet
NoEvent == [event |-> "none", vehicle |-> NoVehicle, updated_at |-> None,
            speed |-> 0]

\* lines 190-192 had the test of the event type at line 190 been missing
HasData_AnyType(e) ==
    e.vehicle # NoVehicle \/ e.updated_at # None \/ e.speed # 0

\* line 191-192: `data = event.get("data", {})`, `if data:`
HasData(e) ==
    /\ e.event = "vehicle_state"
    /\ (e.vehicle # NoVehicle \/ e.updated_at # None \/ e.speed # 0)

\* lines 193-197: the table is written when the vehicle id resolves
WritesTable(e) == HasData(e) /\ e.vehicle \in Vehicles

\* lines 195-197: listeners are notified inside `if vehicle_id:`
Notifies_AnyPayload(e) == HasData(e)
Notifies(e) == WritesTable(e)

\* lines 200-201, 253: the watermark moves when the payload carries another one
MovesWatermark_Always(e) == HasData(e) /\ e.updated_at # None
MovesWatermark(e) ==
    HasData(e) /\ e.updated_at # None /\ last_updated_at # e.updated_at

Goto(pc, c, ref, arg, exc, k) ==
    /\ task_pc' = pc
    /\ client' = c
    /\ stream_client' = ref
    /\ sleep_arg' = arg
    /\ last_exc' = exc
    /\ comm_errors' = k
    /\ leaked' = leaked

\* api.py lines 242, 258, 271-273: the transport holds an open response
IsOpen(c) == c.response \/ c.connected

\* lines 118-127: self._stream_client is bound to a new transport, whatever
\* state the transport `c` it referred to is in, and connect is awaited
BuildAndConnect(c, k) ==
    /\ task_pc' = "connect"
    /\ client' = FreshClient
    /\ stream_client' = TRUE
    /\ sleep_arg' = sleep_arg
    /\ last_exc' = "none"
    /\ comm_errors' = k
    /\ leaked' = (leaked \/ IsOpen(c))

\* lines 72-75: the property `connected`
Connected == stream_client /\ client.connected

\* lines 179-181: finally
Finally_Skipped(c) == c
Finally(c) == IF stream_client THEN AsyncDisconnect(c) ELSE c

\* lines 173-177: except Exception
OnUnexpected_Exits(c, exc, k) ==
    Goto("done", Finally(c), stream_client, sleep_arg, exc, k)
OnUnexpected(c, exc, k) ==
    Goto("sleep_unexpected", c, stream_client, UNEXPECTED_RETRY_DELAY, exc, k)

\* lines 136-142: except NavirecApiClientAuthenticationError
OnAuthenticationError_Backoff(c, k) ==
    Goto("sleep_auth", GetReconnectDelay(c), stream_client, ReturnedDelay(c),
         "auth", k)
OnAuthenticationError(c, k) ==
    Goto("sleep_auth", c, stream_client, AUTH_RETRY_DELAY, "auth", k)

\* lines 144-150: except NavirecApiClientRateLimitError
OnRateLimitError_Default(c, retry_after, k) ==
    Goto("sleep_rate", c, stream_client, DEFAULT_RETRY_AFTER, "rate", k)
OnRateLimitError(c, retry_after, k) ==
    Goto("sleep_rate", c, stream_client, retry_after, "rate", k)

\* lines 152-168 had the test of line 153 been missing
OnCommunicationError_IgnoresFlag(c, k) ==
    IF stream_client
    THEN Goto("sleep_comm", GetReconnectDelay(c), stream_client,
              ReturnedDelay(c), "comm", k + 1)
    ELSE Goto("sleep_comm", c, stream_client, FALLBACK_RECONNECT_DELAY,
              "comm", k + 1)

\* lines 152-168: except NavirecApiClientCommunicationError
OnCommunicationError(c, k) ==
    IF should_stop
    THEN Goto("done", Finally(c), stream_client, sleep_arg, "comm", k + 1)
    ELSE IF stream_client
    THEN Goto("sleep_comm", GetReconnectDelay(c), stream_client,
              ReturnedDelay(c), "comm", k + 1)
    ELSE Goto("sleep_comm", c, stream_client, FALLBACK_RECONNECT_DELAY,
              "comm", k + 1)

\* lines 170-171 and 179-181: except asyncio.CancelledError: break
OnCancelledError(c, k) ==
    Goto("done", Finally(c), stream_client, sleep_arg, "cancelled", k)

\* line 115 and lines 118-127: the loop condition, then the transport is
\* built and connect is awaited.  The constructor is called with the keyword
\* initial_watermark, which __init__ of api.py (lines 194-200) does not
\* take: that call raises TypeError, which arrives at line 173.  Under a
\* constructor that takes the keyword the call returns a fresh client.
\* Which of the two happens is a property of the build, not of the call.
LoopHead(c, k) ==
    IF should_stop
    THEN Goto("done", c, stream_client, sleep_arg, last_exc, k)
    ELSE IF ctor_raises
    THEN OnUnexpected(c, "unexpected", k)
    ELSE BuildAndConnect(c, k)

TaskFrame == UNCHANGED <<pollVars, policy_log, should_stop, stream_task,
                         call_pc, stopped, ctor_raises, retry_after_header,
                         callLog, apiVars>>

\* the task runs for the first time
TaskStart ==
    /\ task_pc = "created"
    /\ ~cancel_pending
    /\ LoopHead(client, comm_errors)
    /\ UNCHANGED <<tableVars, lines_read, cancel_pending, cancel_seen>>
    /\ TaskFrame

\* lines 127-131: connect succeeded, the first line is awaited
ConnectOk ==
    /\ task_pc = "connect"
    /\ ~cancel_pending
    /\ IF stream_client
       THEN Goto("iter", ResetReconnectDelay(ClientConnected(client)),
                 stream_client, sleep_arg, "none", 0)
       ELSE OnUnexpected(ClientConnected(client), "unexpected", comm_errors)
    /\ UNCHANGED <<tableVars, lines_read, cancel_pending, cancel_seen>>
    /\ TaskFrame

\* api.py lines 248-250: 401 or 403
ConnectAuthError ==
    /\ task_pc = "connect"
    /\ ~cancel_pending
    /\ OnAuthenticationError(ClientConnectFailed(client, TRUE), comm_errors)
    /\ UNCHANGED <<tableVars, lines_read, cancel_pending, cancel_seen>>
    /\ TaskFrame

\* api.py lines 252-255: 429.  A Retry-After that is no decimal number makes
\* int() raise ValueError, which is no ClientError and arrives at line 173.
ConnectRateLimited ==
    /\ task_pc = "connect"
    /\ ~cancel_pending
    /\ \E h \in RetryAfterHeaders :
        /\ retry_after_header' = h
        /\ IF IsDecimal(HeaderOrDefault(h))
           THEN OnRateLimitError(ClientConnectFailed(client, TRUE),
                                 ParseInt(HeaderOrDefault(h)), comm_errors)
           ELSE OnUnexpected(ClientConnectFailed(client, TRUE), "unexpected",
                             comm_errors)
    /\ UNCHANGED <<tableVars, lines_read, cancel_pending, cancel_seen>>
    /\ UNCHANGED <<pollVars, policy_log, should_stop, stream_task, call_pc,
                   stopped, ctor_raises, callLog, apiVars>>

\* api.py lines 257, 262-264: another status or a transport failure
ConnectCommError ==
    /\ task_pc = "connect"
    /\ ~cancel_pending
    /\ comm_errors < MaxConsecutive
    /\ \E answered \in BOOLEAN :
        OnCommunicationError(ClientConnectFailed(client, answered), comm_errors)
    /\ UNCHANGED <<tableVars, lines_read, cancel_pending, cancel_seen>>
    /\ TaskFrame

\* any other exception of connect, RuntimeError("Session is closed") included
ConnectUnexpected ==
    /\ task_pc = "connect"
    /\ ~cancel_pending
    /\ \E exc \in {"unexpected", "session_closed"}, answered \in BOOLEAN :
        /\ exc = "session_closed" => ~answered
        /\ OnUnexpected(ClientConnectFailed(client, answered), exc, comm_errors)
    /\ UNCHANGED <<tableVars, lines_read, cancel_pending, cancel_seen>>
    /\ TaskFrame

\* api.py lines 284-304 end without an exception (the body ended, or the
\* client's stop flag was seen at line 285); coordinator.py lines 131, 179-181
IterationEnds(c) == LoopHead(Finally(IterationOver(c)), comm_errors)

\* api.py lines 288-296: a blank line or a line that is no JSON is skipped
IterSkip ==
    /\ task_pc = "iter"
    /\ ~cancel_pending
    /\ lines_read < MaxLines
    /\ lines_read' = lines_read + 1
    /\ IF client.should_stop
       THEN IterationEnds(client)
       ELSE UNCHANGED <<task_pc, client, stream_client, sleep_arg, last_exc,
                        comm_errors, leaked>>
    /\ UNCHANGED <<tableVars, cancel_pending, cancel_seen>>
    /\ TaskFrame

\* _async_handle_event, lines 185-218, up to its first await (line 255)
HandleEvent(e, c) ==
    /\ data' = IF WritesTable(e)
               THEN [data EXCEPT ![e.vehicle] = Snapshot(e)]
               ELSE data
    /\ notifications' = IF Notifies(e) THEN notifications + 1
                        ELSE notifications
    /\ listener_data' = IF Notifies(e) THEN data' ELSE listener_data
    /\ initial_state_received' =
            (initial_state_received \/ e.event = "initial_state_sent")
    /\ IF MovesWatermark(e)
       THEN /\ last_updated_at' = e.updated_at
            /\ pending_save' = e.updated_at
            /\ Goto("save", c, stream_client, sleep_arg, last_exc, comm_errors)
       ELSE /\ UNCHANGED <<last_updated_at, pending_save>>
            /\ Goto("iter", c, stream_client, sleep_arg, last_exc, comm_errors)
    /\ store' = store

\* lines 131-134 had line 134 spawned the handler instead of awaiting it: the
\* next line is read while the save of the previous event is still awaited
IterEvent_NotAwaited ==
    /\ task_pc \in {"iter", "save"}
    /\ ~cancel_pending
    /\ lines_read < MaxLines
    /\ lines_read' = lines_read + 1
    /\ \E e \in StreamEvents :
        IF client.should_stop
        THEN IterationEnds(client) /\ UNCHANGED tableVars
        ELSE IF should_stop
        THEN /\ LoopHead(Finally(TrackUpdatedAt(client, e)), comm_errors)
             /\ UNCHANGED tableVars
        ELSE HandleEvent(e, TrackUpdatedAt(client, e))
    /\ UNCHANGED <<cancel_pending, cancel_seen>>
    /\ TaskFrame

\* api.py lines 284-304 yield an event; coordinator.py lines 131-134
IterEvent ==
    /\ task_pc = "iter"
    /\ ~cancel_pending
    /\ lines_read < MaxLines
    /\ lines_read' = lines_read + 1
    /\ \E e \in StreamEvents :
        IF client.should_stop
        THEN IterationEnds(client) /\ UNCHANGED tableVars
        ELSE IF should_stop
        THEN /\ LoopHead(Finally(TrackUpdatedAt(client, e)), comm_errors)
             /\ UNCHANGED tableVars
        ELSE HandleEvent(e, TrackUpdatedAt(client, e))
    /\ UNCHANGED <<cancel_pending, cancel_seen>>
    /\ TaskFrame

\* line 193 had the watermark been taken from the payload before the
\* validation
IterDispatchFails_AdvancesCursor ==
    /\ task_pc = "iter"
    /\ ~cancel_pending
    /\ ~client.should_stop
    /\ ~should_stop
    /\ lines_read < MaxLines
    /\ lines_read' = lines_read + 1
    /\ \E e \in VehicleStateEvents :
        /\ HasData(e)
        /\ last_updated_at' = IF e.updated_at # None THEN e.updated_at
                               ELSE last_updated_at
        /\ OnUnexpected(TrackUpdatedAt(client, e), "unexpected", comm_errors)
    /\ UNCHANGED <<data, store, notifications, initial_state_received,
                   pending_save, listener_data, cancel_pending, cancel_seen>>
    /\ TaskFrame

\* line 193: the payload of a vehicle_state event fails validation
IterDispatchFails ==
    /\ task_pc = "iter"
    /\ ~cancel_pending
    /\ ~client.should_stop
    /\ ~should_stop
    /\ lines_read < MaxLines
    /\ lines_read' = lines_read + 1
    /\ \E e \in VehicleStateEvents :
        /\ HasData(e)
        /\ OnUnexpected(TrackUpdatedAt(client, e), "unexpected", comm_errors)
    /\ UNCHANGED <<tableVars, cancel_pending, cancel_seen>>
    /\ TaskFrame

\* the response body ends: the sequence ends without an exception
IterEnd ==
    /\ task_pc = "iter"
    /\ ~cancel_pending
    /\ IterationEnds(client)
    /\ UNCHANGED <<tableVars, lines_read, cancel_pending, cancel_seen>>
    /\ TaskFrame

\* api.py lines 306-313: aiohttp.ClientError while a line is read
IterNetworkError ==
    /\ task_pc = "iter"
    /\ ~cancel_pending
    /\ OnCommunicationError(IterationOver(client), comm_errors)
    /\ UNCHANGED <<tableVars, lines_read, cancel_pending, cancel_seen>>
    /\ TaskFrame

\* any other exception while a line is read or decoded (line 288)
IterUnexpected ==
    /\ task_pc = "iter"
    /\ ~cancel_pending
    /\ OnUnexpected(IterationOver(client), "unexpected", comm_errors)
    /\ UNCHANGED <<tableVars, lines_read, cancel_pending, cancel_seen>>
    /\ TaskFrame

\* line 255 returns: the store holds the value
SaveDone ==
    /\ task_pc = "save"
    /\ ~cancel_pending
    /\ store' = pending_save
    /\ pending_save' = None
    /\ Goto("iter", client, stream_client, sleep_arg, last_exc, comm_errors)
    /\ UNCHANGED <<data, last_updated_at, notifications, initial_state_received,
                   listener_data, lines_read, cancel_pending, cancel_seen>>
    /\ TaskFrame

\* line 255 raises and nothing catches it
SaveFails_Terminates ==
    /\ task_pc = "save"
    /\ ~cancel_pending
    /\ pending_save' = None
    /\ Goto("done", Finally(client), stream_client, sleep_arg, "unexpected",
            comm_errors)
    /\ UNCHANGED <<data, last_updated_at, store, notifications,
                   initial_state_received, listener_data, lines_read,
                   cancel_pending, cancel_seen>>
    /\ TaskFrame

\* line 255 raises
SaveFails ==
    /\ task_pc = "save"
    /\ ~cancel_pending
    /\ pending_save' = None
    /\ OnUnexpected(client, "unexpected", comm_errors)
    /\ UNCHANGED <<data, last_updated_at, store, notifications,
                   initial_state_received, listener_data, lines_read,
                   cancel_pending, cancel_seen>>
    /\ TaskFrame

\* lines 142, 150, 168, 177 return; lines 179-181; line 115
SleepDone ==
    /\ task_pc \in Sleeps
    /\ ~cancel_pending
    /\ LoopHead(Finally(client), comm_errors)
    /\ UNCHANGED <<tableVars, lines_read, cancel_pending, cancel_seen>>
    /\ TaskFrame

(***************************************************************************)
(* CancelledError is thrown into the task where it is suspended.           *)
(***************************************************************************)
Delivered ==
    /\ cancel_pending
    /\ cancel_pending' = FALSE
    /\ cancel_seen' = TRUE

\* cancelled before its first step: the coroutine never runs
CancelAtCreated ==
    /\ task_pc = "created"
    /\ Delivered
    /\ task_pc' = "done"
    /\ UNCHANGED <<client, stream_client, sleep_arg, last_exc, comm_errors,
                   tableVars, lines_read, leaked>>
    /\ TaskFrame

\* line 127 raises CancelledError; lines 170-171
CancelAtConnect ==
    /\ task_pc = "connect"
    /\ Delivered
    /\ OnCancelledError(client, comm_errors)
    /\ UNCHANGED <<tableVars, lines_read>>
    /\ TaskFrame

\* api.py lines 306-312: the generator turns CancelledError into
\* NavirecApiClientCommunicationError; coordinator.py lines 152-168
CancelAtIter ==
    /\ task_pc = "iter"
    /\ Delivered
    /\ OnCommunicationError(IterationOver(client), comm_errors)
    /\ UNCHANGED <<tableVars, lines_read>>
    /\ TaskFrame

\* line 255 raises CancelledError (the write may or may not have happened);
\* it leaves _async_handle_event and arrives at lines 170-171
CancelAtSave ==
    /\ task_pc = "save"
    /\ Delivered
    /\ \E written \in BOOLEAN : store' = IF written THEN pending_save ELSE store
    /\ pending_save' = None
    /\ OnCancelledError(client, comm_errors)
    /\ UNCHANGED <<data, last_updated_at, notifications, initial_state_received,
                   listener_data, lines_read>>
    /\ TaskFrame

\* a sleep inside an except clause raises CancelledError: no except clause
\* of the same try catches it, finally runs and the coroutine ends
CancelAtSleep ==
    /\ task_pc \in Sleeps
    /\ Delivered
    /\ Goto("done", Finally(client), stream_client, sleep_arg, last_exc,
            comm_errors)
    /\ UNCHANGED <<tableVars, lines_read>>
    /\ TaskFrame

\* the task is cancelled by someone else than async_stop_streaming
ExternalCancel ==
    /\ task_pc \notin {"none", "done"}
    /\ ~cancel_pending
    /\ cancel_pending' = TRUE
    /\ UNCHANGED <<pollVars, policy_log, client, should_stop, stream_client,
                   stream_task, tableVars, task_pc, cancel_seen, sleep_arg,
                   last_exc, comm_errors, lines_read, call_pc, stopped,
                   ctor_raises,
        retry_after_header, leaked, callLog, apiVars>>

(***************************************************************************)
(* async_start_streaming and async_stop_streaming, called one at a time.   *)
(***************************************************************************)

\* lines 79-90 had the early return of line 80 been missing
StartNoop_Restarts ==
    /\ call_pc = "idle"
    /\ stream_task
    /\ last_updated_at' = IF store # None THEN store ELSE last_updated_at
    /\ should_stop' = FALSE
    /\ task_pc' = "created"
    /\ UNCHANGED <<pollVars, policy_log, client, stream_client, stream_task,
                   data, store, notifications, initial_state_received,
                   pending_save, listener_data, cancel_pending, cancel_seen,
                   sleep_arg, last_exc, comm_errors, lines_read, call_pc,
                   stopped, ctor_raises, retry_after_header, leaked, callLog, apiVars>>

\* lines 79-80: a task is recorded
StartNoop ==
    /\ call_pc = "idle"
    /\ stream_task
    /\ UNCHANGED vars

\* lines 79-83: no task is recorded, the stored state is being loaded
StartBegin ==
    /\ call_pc = "idle"
    /\ ~stream_task
    /\ call_pc' = "start_load"
    /\ stopped' = FALSE
    /\ UNCHANGED <<pollVars, policy_log, client, should_stop, stream_client,
                   stream_task, tableVars, task_pc, cancel_pending, cancel_seen,
                   sleep_arg, last_exc, comm_errors, lines_read, ctor_raises,
        retry_after_header, leaked, callLog, apiVars>>

\* lines 240-242 and 85-90
\* lines 83-89 had start() emptied self.data
StartLoaded_ClearsTable ==
    /\ call_pc = "start_load"
    /\ last_updated_at' = IF store # None THEN store ELSE last_updated_at
    /\ should_stop' = FALSE
    /\ stream_task' = TRUE
    /\ task_pc' = "created"
    /\ data' = [v \in Vehicles |-> NoState]
    /\ cancel_pending' = FALSE
    /\ cancel_seen' = FALSE
    /\ sleep_arg' = 0
    /\ last_exc' = "none"
    /\ comm_errors' = 0
    /\ call_pc' = "idle"
    /\ UNCHANGED <<pollVars, policy_log, client, stream_client, store,
                   listener_data,
                   notifications, initial_state_received, pending_save,
                   lines_read, stopped, ctor_raises,
        retry_after_header, leaked, callLog, apiVars>>
StartLoaded ==
    /\ call_pc = "start_load"
    /\ last_updated_at' = IF store # None THEN store ELSE last_updated_at
    /\ should_stop' = FALSE
    /\ stream_task' = TRUE
    /\ task_pc' = "created"
    /\ cancel_pending' = FALSE
    /\ cancel_seen' = FALSE
    /\ sleep_arg' = 0
    /\ last_exc' = "none"
    /\ comm_errors' = 0
    /\ call_pc' = "idle"
    /\ UNCHANGED <<pollVars, policy_log, client, stream_client, data, store,
                   listener_data,
                   notifications, initial_state_received, pending_save,
                   lines_read, stopped, ctor_raises,
        retry_after_header, leaked, callLog, apiVars>>

\* lines 94-102: the flag, the disconnect, the reference, the cancel
StopBegin ==
    /\ call_pc = "idle"
    /\ should_stop' = TRUE
    /\ client' = IF stream_client THEN AsyncDisconnect(client) ELSE client
    /\ stream_client' = FALSE
    /\ IF stream_task
       THEN /\ cancel_pending' = (cancel_pending \/ task_pc # "done")
            /\ call_pc' = "stop_wait"
            /\ UNCHANGED stopped
       ELSE /\ stopped' = TRUE
            /\ UNCHANGED <<cancel_pending, call_pc>>
    /\ UNCHANGED <<pollVars, policy_log, stream_task, tableVars, task_pc,
                   cancel_seen, sleep_arg, last_exc, comm_errors, lines_read,
                   ctor_raises,
        retry_after_header, leaked, callLog, apiVars>>

\* lines 103-104: `await self._stream_task` returns once the task has ended
TaskAwaited_NoWait == TRUE
TaskAwaited == task_pc = "done"

\* lines 103-107 had line 105 been missing
StopReturn_KeepsTask ==
    /\ call_pc = "stop_wait"
    /\ TaskAwaited
    /\ call_pc' = "idle"
    /\ stopped' = TRUE
    /\ UNCHANGED <<pollVars, policy_log, client, should_stop, stream_client,
                   stream_task, tableVars, task_pc, cancel_pending, cancel_seen,
                   sleep_arg, last_exc, comm_errors, lines_read, ctor_raises,
                   retry_after_header, leaked, callLog, apiVars>>

\* lines 103-107
StopReturn ==
    /\ call_pc = "stop_wait"
    /\ TaskAwaited
    /\ stream_task' = FALSE
    /\ call_pc' = "idle"
    /\ stopped' = TRUE
    /\ UNCHANGED <<pollVars, policy_log, client, should_stop, stream_client,
                   tableVars, task_pc, cancel_pending, cancel_seen, sleep_arg,
                   last_exc, comm_errors, lines_read, ctor_raises,
        retry_after_header, leaked, callLog, apiVars>>

\* the coordinator after __init__ (lines 47-65); the store may hold a
\* watermark an earlier run saved
InitCoordinator ==
    /\ client = FreshClient
    /\ should_stop = FALSE
    /\ stream_client = FALSE
    /\ stream_task = FALSE
    /\ initial_state_received = FALSE
    /\ data = [v \in Vehicles |-> NoState]
    /\ last_updated_at = None
    /\ store \in {None, 1}
    /\ notifications = 0
    /\ task_pc = "none"
    /\ cancel_pending = FALSE
    /\ cancel_seen = FALSE
    /\ sleep_arg = 0
    /\ last_exc = "none"
    /\ comm_errors = 0
    /\ lines_read = 0
    /\ pending_save = None
    /\ call_pc = "idle"
    /\ stopped = FALSE
    /\ ctor_raises \in BOOLEAN
    /\ retry_after_header = "none"
    /\ leaked = FALSE
    /\ listener_data = [v \in Vehicles |-> NoState]
    /\ dispatched = NoEvent
    /\ n_dispatched = 0
    /\ last_event = [v \in Vehicles |-> NoEvent]
    /\ resolved = 0
    /\ last_carried = None

InitStream == InitCoordinator /\ NoApi

TaskNext ==
    \/ TaskStart
    \/ ConnectOk
    \/ ConnectAuthError
    \/ ConnectRateLimited
    \/ ConnectCommError
    \/ ConnectUnexpected
    \/ IterSkip
    \/ IterEvent
    \/ IterDispatchFails
    \/ IterEnd
    \/ IterNetworkError
    \/ IterUnexpected
    \/ SaveDone
    \/ SaveFails
    \/ SleepDone
    \/ CancelAtCreated
    \/ CancelAtConnect
    \/ CancelAtIter
    \/ CancelAtSave
    \/ CancelAtSleep

Init == NoPoll /\ policy_log = <<>> /\ InitStream

Next ==
    \/ TaskNext
    \/ ExternalCancel
    \/ StartNoop
    \/ StartBegin
    \/ StartLoaded
    \/ StopBegin
    \/ StopReturn

Spec == Init /\ [][Next]_vars

NextPoll ==
    \/ PollExpire
    \/ PollSleep
    \/ PollGetFails
    \/ PollGetTerminal
    \/ PollGetPending

InitPollSpec == InitPoll /\ policy_log = <<>> /\ InitStream

SpecPoll == InitPollSpec /\ [][NextPoll]_vars

\* The event loop resumes a poll task whose sleep or GET has completed.
SpecPollFair == InitPollSpec /\ [][NextPoll]_vars /\ WF_vars(NextPoll)

(***************************************************************************)
(* _async_handle_event called directly, one call after the other, as the   *)
(* tests of tests/test_coordinator.py call it.                             *)
(***************************************************************************)
MaxCalls == 3

\* lines 234-236: self.data.get(vehicle_id)
GetVehicleState(v) == IF v \in DOMAIN data THEN data[v] ELSE NoState

\* the payload names a vehicle
NamesVehicle(e) == e.event = "vehicle_state" /\ e.vehicle \in Vehicles

\* the payload has the key updated_at
CarriesUpdatedAt(e) == e.event = "vehicle_state" /\ e.updated_at # None

\* the record of the calls made
CallLog(e) ==
    /\ dispatched' = e
    /\ n_dispatched' = n_dispatched + 1
    /\ last_event' = IF NamesVehicle(e)
                     THEN [last_event EXCEPT ![e.vehicle] = e]
                     ELSE last_event
    /\ resolved' = IF NamesVehicle(e) THEN resolved + 1 ELSE resolved
    /\ last_carried' = IF CarriesUpdatedAt(e) THEN e.updated_at
                       ELSE last_carried

\* events of another type whose "data" looks like a vehicle state
ForeignPayloads ==
    [event : {"heartbeat", "unknown"}, vehicle : {"v1"}, updated_at : {MaxTs},
     speed : {42}]

\* lines 185-218 up to the await of line 255, or to the return
DispatchCall ==
    /\ task_pc = "iter"
    /\ n_dispatched < MaxCalls
    /\ \E e \in StreamEvents \cup ForeignPayloads :
        HandleEvent(e, client) /\ CallLog(e)
    /\ UNCHANGED <<pollVars, policy_log, should_stop, stream_task, call_pc,
                   stopped, ctor_raises, retry_after_header, lines_read,
                   cancel_pending, cancel_seen, apiVars>>

\* line 193: model_validate raises, the call leaves everything as it was
DispatchRaises ==
    /\ task_pc = "iter"
    /\ n_dispatched < MaxCalls
    /\ \E e \in VehicleStateEvents : HasData(e)
    /\ UNCHANGED vars

\* line 255 raises: the exception leaves the call
DispatchSaveRaises ==
    /\ task_pc = "save"
    /\ pending_save' = None
    /\ Goto("iter", client, stream_client, sleep_arg, "unexpected", comm_errors)
    /\ UNCHANGED <<data, last_updated_at, store, notifications,
                   initial_state_received, listener_data, lines_read,
                   cancel_pending, cancel_seen>>
    /\ TaskFrame

\* a coordinator whose loop is connected; the watermark was loaded from the
\* store (lines 240-242)
InitDispatch ==
    /\ NoPoll
    /\ policy_log = <<>>
    /\ client = ClientConnected(FreshClient)
    /\ should_stop = FALSE
    /\ stream_client = TRUE
    /\ stream_task = TRUE
    /\ initial_state_received = FALSE
    /\ data = [v \in Vehicles |-> NoState]
    /\ store \in {None, 1}
    /\ last_updated_at = store
    /\ notifications = 0
    /\ task_pc = "iter"
    /\ cancel_pending = FALSE
    /\ cancel_seen = FALSE
    /\ sleep_arg = 0
    /\ last_exc = "none"
    /\ comm_errors = 0
    /\ lines_read = 0
    /\ pending_save = None
    /\ call_pc = "idle"
    /\ stopped = FALSE
    /\ ctor_raises = FALSE
    /\ retry_after_header = "none"
    /\ leaked = FALSE
    /\ listener_data = [v \in Vehicles |-> NoState]
    /\ dispatched = NoEvent
    /\ n_dispatched = 0
    /\ last_event = [v \in Vehicles |-> NoEvent]
    /\ resolved = 0
    /\ last_carried = None
    /\ NoApi

NextDispatch ==
    \/ DispatchCall
    \/ DispatchRaises
    \/ SaveDone
    \/ DispatchSaveRaises

SpecDispatch == InitDispatch /\ [][NextDispatch]_vars

(***************************************************************************)
(* _async_stream_loop awaited directly, as tests/test_coordinator.py does, *)
(* while something else sets the stop flag at any moment without           *)
(* cancelling the coroutine.                                               *)
(***************************************************************************)

\* tests/test_coordinator.py line 535: coordinator._should_stop = True
SetStopFlag ==
    /\ ~should_stop
    /\ task_pc # "done"
    /\ should_stop' = TRUE
    /\ UNCHANGED <<pollVars, policy_log, client, stream_client, stream_task,
                   tableVars, task_pc, cancel_pending, cancel_seen, sleep_arg,
                   last_exc, comm_errors, lines_read, call_pc, stopped,
                   ctor_raises, retry_after_header, leaked, callLog, apiVars>>

\* the coordinator after __init__ (lines 47-65) with nothing stored, its loop
\* coroutine created
InitLoop ==
    /\ NoPoll
    /\ policy_log = <<>>
    /\ client = FreshClient
    /\ should_stop = FALSE
    /\ stream_client = FALSE
    /\ stream_task = FALSE
    /\ initial_state_received = FALSE
    /\ data = [v \in Vehicles |-> NoState]
    /\ last_updated_at = None
    /\ store = None
    /\ notifications = 0
    /\ task_pc = "created"
    /\ cancel_pending = FALSE
    /\ cancel_seen = FALSE
    /\ sleep_arg = 0
    /\ last_exc = "none"
    /\ comm_errors = 0
    /\ lines_read = 0
    /\ pending_save = None
    /\ call_pc = "idle"
    /\ stopped = FALSE
    /\ ctor_raises \in BOOLEAN
    /\ retry_after_header = "none"
    /\ leaked = FALSE
    /\ listener_data = [v \in Vehicles |-> NoState]
    /\ dispatched = NoEvent
    /\ n_dispatched = 0
    /\ last_event = [v \in Vehicles |-> NoEvent]
    /\ resolved = 0
    /\ last_carried = None
    /\ NoApi

NextLoop ==
    \/ TaskNext
    \/ ExternalCancel
    \/ SetStopFlag

SpecLoop == InitLoop /\ [][NextLoop]_vars

(***************************************************************************)
(* api.py: how async_connect (stream) and _async_request (REST) classify   *)
(* what the server answers.                                                *)
(***************************************************************************)
MaxRequests == 2

\* the statuses an answer may carry
HttpStatuses == {200, 204, 304, 400, 401, 403, 404, 429, 500}

\* what session.get / session.request may raise instead of answering
StreamFailures == {"client_error", "gaierror"}
RestFailures == {"client_error", "gaierror", "timeout"}

\* lines 188 and 257: aiohttp's raise_for_status raises ClientResponseError
\* (a ClientError) when the status is 400 or higher and does nothing below
RaiseForStatus(st) == st >= 400

Raised(exc) == [exc |-> exc, retry_after |-> 0]

\* lines 185 and 253: int(headers.get("Retry-After", "60")), then the raise
RateLimited(h) ==
    IF IsDecimal(HeaderOrDefault(h))
    THEN [exc |-> "rate", retry_after |-> ParseInt(HeaderOrDefault(h))]
    ELSE Raised("value_error")

\* async_connect, lines 241-264
ConnectOutcome(fail, st, h) ==
    IF fail \in StreamFailures THEN Raised("comm")
    ELSE IF st \in {401, 403} THEN Raised("auth")
    ELSE IF st = 429 THEN RateLimited(h)
    ELSE IF RaiseForStatus(st) THEN Raised("comm")
    ELSE Raised("none")

\* _async_request and _verify_response_or_raise, lines 161-188
RequestOutcome(fail, st, h) ==
    IF fail = "timeout" THEN Raised("comm")
    ELSE IF fail \in {"client_error", "gaierror"} THEN Raised("comm")
    ELSE IF st \in {401, 403} THEN Raised("auth")
    ELSE IF st = 429 THEN RateLimited(h)
    ELSE IF RaiseForStatus(st) THEN Raised("comm")
    ELSE Raised("none")

\* what the server answered; status 0 when the transport failed
Answer(api, fail, st, h) ==
    [api |-> api, status |-> IF fail = "none" THEN st ELSE 0,
     retry_after |-> IF fail = "none" /\ st = 429 THEN h ELSE "absent"]

\* async_connect called on a transport that was just built, or on one whose
\* get_reconnect_delay was called before
HttpStreamConnect ==
    /\ n_requests < MaxRequests
    /\ \E fail \in StreamFailures \cup {"none"}, st \in HttpStatuses,
          h \in RetryAfterHeaders,
          c \in {FreshClient, GetReconnectDelay(FreshClient)} :
        /\ answer' = Answer("stream", fail, st, h)
        /\ outcome' = ConnectOutcome(fail, st, h)
        /\ client' = IF ConnectOutcome(fail, st, h).exc = "none"
                      THEN ClientConnected(c)
                      ELSE ClientConnectFailed(c, fail = "none")
    /\ n_requests' = n_requests + 1
    /\ UNCHANGED <<pollVars, policy_log, should_stop, stream_client,
                   stream_task, tableVars, task_pc, cancel_pending, cancel_seen,
                   sleep_arg, last_exc, comm_errors, lines_read, call_pc,
                   stopped, ctor_raises, retry_after_header, leaked, callLog,
                   genVars, pageVars, hostVars>>

\* _async_request called by one of the REST methods
HttpRestRequest ==
    /\ n_requests < MaxRequests
    /\ \E fail \in RestFailures \cup {"none"}, st \in HttpStatuses,
          h \in RetryAfterHeaders :
        /\ answer' = Answer("rest", fail, st, h)
        /\ outcome' = RequestOutcome(fail, st, h)
    /\ n_requests' = n_requests + 1
    /\ UNCHANGED <<pollVars, policy_log, client, should_stop, stream_client,
                   stream_task, tableVars, task_pc, cancel_pending, cancel_seen,
                   sleep_arg, last_exc, comm_errors, lines_read, call_pc,
                   stopped, ctor_raises, retry_after_header, leaked, callLog,
                   genVars, pageVars, hostVars>>

NextHttp ==
    \/ HttpStreamConnect
    \/ HttpRestRequest

SpecHttp == Init /\ [][NextHttp]_vars

(***************************************************************************)
(* api.py: one NavirecStreamClient whose methods are called directly:      *)
(* async_connect, then async_iter_events consumed line by line, with       *)
(* async_disconnect called at any moment.                                  *)
(***************************************************************************)
MaxBody == 3            \* lines the response body delivers
MaxDisconnects == 2     \* async_disconnect calls

\* the events the body may carry
GenEvents ==
    {e \in StreamEvents :
        \/ e.event = "heartbeat"
        \/ e.event = "vehicle_state" /\ e.vehicle = "v1" /\ e.updated_at # None
                /\ e.speed = 42}

\* the lines of the body: an empty line, a line of spaces, a line that is
\* no JSON ("{bad"), bytes that are no UTF-8, a JSON value that is no
\* object ("[]"), and the JSON objects of GenEvents
BodyLines ==
    [kind : {"blank", "spaces", "malformed", "bad_utf8", "non_object"},
     event : {NoEvent}]
    \cup [kind : {"object"}, event : GenEvents]

\* line 288: line.decode("utf-8") raises UnicodeDecodeError otherwise
DecodesUtf8(l) == l.kind # "bad_utf8"

\* lines 288-290: .strip() leaves nothing
IsBlank(l) == l.kind \in {"blank", "spaces"}

\* lines 292-296: json.loads returns a value
JsonLoads(l) == l.kind \in {"non_object", "object"}

\* lines 299-302: event.get exists when the value is a dict
HasGet(l) == l.kind = "object"

GenFrame == UNCHANGED <<pollVars, policy_log, should_stop, stream_client,
                        stream_task, tableVars, task_pc, cancel_pending,
                        cancel_seen, sleep_arg, last_exc, comm_errors,
                        lines_read, call_pc, stopped, ctor_raises,
                        retry_after_header, leaked, callLog, httpVars,
                        pageVars, hostVars>>

\* async_connect answered with a 2xx, lines 242-259; a transport is
\* connected once, after it was built (coordinator.py lines 118-127)
TransportConnect ==
    /\ gen_pc = "none"
    /\ ~client.response
    /\ ~client.should_stop
    /\ client' = ClientConnected(client)
    /\ UNCHANGED genVars
    /\ GenFrame

\* lines 279-284: the generator is started
GenStart ==
    /\ gen_pc = "none"
    /\ gen_pc' = IF client.response THEN "running" ELSE "error"
    /\ UNCHANGED <<client, received, yielded, closes, n_disconnects>>
    /\ GenFrame

\* the generator leaves its try block: finally, lines 312-313
GenLeaves(pc) ==
    /\ gen_pc' = pc
    /\ client' = IterationOver(client)
    /\ yielded' = yielded

\* lines 284-304: the body delivers a line
GenLine ==
    /\ gen_pc = "running"
    /\ Len(received) < MaxBody
    /\ \E l \in BodyLines :
        /\ received' = Append(received, l)
        /\ IF client.should_stop THEN GenLeaves("ended")
           ELSE IF ~DecodesUtf8(l) THEN GenLeaves("unexpected")
           ELSE IF IsBlank(l) \/ ~JsonLoads(l)
           THEN UNCHANGED <<gen_pc, client, yielded>>
           ELSE IF ~HasGet(l) THEN GenLeaves("unexpected")
           ELSE /\ gen_pc' = "running"
                /\ client' = TrackUpdatedAt(client, l.event)
                /\ yielded' = Append(yielded, l.event)
    /\ UNCHANGED <<closes, n_disconnects>>
    /\ GenFrame

\* line 284: the body ends
GenBodyEnd ==
    /\ gen_pc = "running"
    /\ GenLeaves("ended")
    /\ UNCHANGED <<received, closes, n_disconnects>>
    /\ GenFrame

\* lines 306-313 had lines 307 and 313 been missing
GenNetworkError_StaysConnected ==
    /\ gen_pc = "running"
    /\ gen_pc' = "comm_error"
    /\ UNCHANGED <<client, yielded, received, closes, n_disconnects>>
    /\ GenFrame

\* lines 306-311: aiohttp.ClientError while a line is awaited
GenNetworkError ==
    /\ gen_pc = "running"
    /\ GenLeaves("comm_error")
    /\ UNCHANGED <<received, closes, n_disconnects>>
    /\ GenFrame

\* lines 306-311: CancelledError while a line is awaited
GenCancelled ==
    /\ gen_pc = "running"
    /\ GenLeaves("comm_error")
    /\ UNCHANGED <<received, closes, n_disconnects>>
    /\ GenFrame

\* async_disconnect, lines 266-275, with the close of lines 270-271 counted
DisconnectCall ==
    /\ n_disconnects < MaxDisconnects
    /\ n_disconnects' = n_disconnects + 1
    /\ closes' = IF client.response THEN closes + 1 ELSE closes
    /\ client' = AsyncDisconnect(client)
    /\ UNCHANGED <<gen_pc, received, yielded>>
    /\ GenFrame

NextIter ==
    \/ TransportConnect
    \/ GenStart
    \/ GenLine
    \/ GenBodyEnd
    \/ GenNetworkError
    \/ GenCancelled
    \/ DisconnectCall

SpecIter == Init /\ [][NextIter]_vars

NextPolicy ==
    \/ PolicyGet
    \/ PolicyReset
    \/ PolicyConnect

SpecPolicy == Init /\ [][NextPolicy]_vars

(***************************************************************************)
(* Properties                                                              *)
(***************************************************************************)

\* what the k-th sleep of the poller is claimed to be
PollBackoff(k) ==
    Min(COMMAND_POLL_INITIAL_DELAY * Pow(COMMAND_POLL_BACKOFF_FACTOR, k - 1),
        COMMAND_POLL_MAX_DELAY)

\* what the n-th get_reconnect_delay after a reset is claimed to return
ReconnectBackoff(n) ==
    Min(STREAM_RECONNECT_MIN_DELAY * Pow(STREAM_RECONNECT_MULTIPLIER, n - 1),
        STREAM_RECONNECT_MAX_DELAY)

\* the number of get_reconnect_delay entries that end at log[i] with no
\* reset between them
RECURSIVE RunLength(_, _)
RunLength(log, i) ==
    IF i = 0 \/ log[i] = 0 THEN 0 ELSE 1 + RunLength(log, i - 1)

C1_State ==
    /\ Len(fired) <= 1
    /\ Len(notified) <= 1
    /\ Len(fired) = Len(notified)
    /\ (poll_pc = "done") <=> (Len(fired) = 1)
    /\ Len(fired) = 1 => fired[1].state = notified[1].state
    /\ last_op \in {"start", "sleep", "get_failed", "get_pending"}
            => fired = <<>> /\ notified = <<>>

\* C1: in every run of the polling loop the result event and the
\* notification are each produced at most once; the loop has stopped exactly
\* when it has produced one event and one notification, and the two carry
\* the same state; a failed or non-terminal poll produces nothing; and once
\* the result is emitted the poller takes no further step (no GET, no sleep).
C1_EmitsExactlyOnce ==
    [](C1_State) /\ [][Len(fired) > 0 => UNCHANGED pollVars]_vars

\* a run with at least three polls, not all terminal, that ended on a
\* terminal answer
C1_Witness ==
    /\ poll_pc = "done"
    /\ last_op = "get_terminal"
    /\ gets >= 3
    /\ fired[1].state = "failed"

\* C2 (as claimed): whenever the control loop sleeps after a
\* CommunicationError, it sleeps min(floor * multiplier^(k-1), max), k being
\* the number of CommunicationErrors since the last successful connect.
C2_ReconnectSleepIsExponential ==
    task_pc = "sleep_comm" => sleep_arg = ReconnectBackoff(comm_errors)

C3_Stopped == stopped => (task_pc \in {"none", "done"} /\ ~cancel_pending)

C3_Quiet ==
    stopped => /\ data' = data
               /\ notifications' = notifications
               /\ last_updated_at' = last_updated_at
               /\ store' = store

\* C3: once async_stop_streaming has returned and until the next start, the
\* loop task has ended, and no step writes the table, notifies listeners or
\* changes the in-memory or the stored watermark.
C3_NoWriteAfterStop == [](C3_Stopped) /\ [][C3_Quiet]_vars

\* stop returned after it cancelled a loop that had already written states
C3_Witness ==
    /\ stopped
    /\ task_pc = "done"
    /\ cancel_seen
    /\ should_stop
    /\ notifications > 0

C4_State ==
    /\ task_pc = "done" => (should_stop \/ cancel_seen)
    /\ last_exc \in {"unexpected", "session_closed"} =>
        \/ task_pc = "sleep_unexpected" /\ sleep_arg = UNEXPECTED_RETRY_DELAY
        \/ task_pc = "done" /\ (should_stop \/ cancel_seen)

C4_Retry ==
    (task_pc = "sleep_unexpected" /\ task_pc' # "sleep_unexpected") =>
        \/ task_pc' = "connect" /\ client' = FreshClient /\ stream_client'
        \/ task_pc' = "done" /\ (should_stop \/ cancel_seen')

C5_SessionClosedExits == last_exc = "session_closed" => task_pc = "done"

\* C6 (as claimed): once CancelledError has been thrown into the loop task,
\* at whatever suspension point, the loop has ended: it does not go on to a
\* sleep, a connect or a dispatch.
C6_CancelExits == cancel_seen => task_pc = "done"

\* C7 (as claimed): every polling task eventually stops.
C7_PollTerminates == <>(poll_pc = "done")

\* C8: when expires_at lies before the clock of the first check, the poller
\* is either about to emit "expired" (nothing else is possible) or has
\* stopped after exactly one "expired" event and notification, having slept
\* and polled zero times.
C8_ExpiredAtFirstCheck ==
    (expires_at # None /\ expires_at < StartTime) =>
        \/ /\ poll_pc = "check"
           /\ last_op = "start"
           /\ ENABLED PollExpire
           /\ ~ENABLED PollSleep
           /\ fired = <<>>
           /\ notified = <<>>
           /\ sleeps = 0
           /\ gets = 0
        \/ /\ poll_pc = "done"
           /\ fired = <<[state |-> "expired"]>>
           /\ notified = <<[state |-> "expired", title |-> "timed out"]>>
           /\ sleeps = 0
           /\ gets = 0

C8_Witness ==
    /\ expires_at # None
    /\ expires_at < StartTime
    /\ poll_pc = "done"
    /\ last_op = "expire"

\* The counters saturate at MaxPolls; PollBackoff is constant from the call
\* on that reaches the maximum, so a saturated counter names the same delay.
C9_State ==
    /\ sleeps > 0 => last_sleep = PollBackoff(sleeps)
    /\ (poll_pc = "get" /\ sleeps < MaxPolls) => sleeps = gets + 1
    /\ poll_pc # "done" => delay = PollBackoff(gets + 1)
    /\ delay <= COMMAND_POLL_MAX_DELAY
    /\ last_op = "get_terminal" => (Len(fired) = 1 /\ sleeps = gets)

\* C9: the delay slept before the k-th GET is min(INITIAL * FACTOR^(k-1),
\* MAX), whether the earlier polls failed or answered a non-terminal state;
\* the delay never decreases and never exceeds the maximum; a terminal
\* answer at attempt k leaves exactly one emission after k sleeps.
C9_PollBackoff == [](C9_State) /\ [][delay' >= delay]_vars

\* terminal on the third attempt, after sleeps of 1, 2 and 4
C9_Witness ==
    /\ last_op = "get_terminal"
    /\ gets = 3
    /\ sleeps = 3
    /\ last_sleep = 4
    /\ Len(fired) = 1

\* C10: between resets the n-th get_reconnect_delay returns
\* min(floor * multiplier^(n-1), max); the stored delay never exceeds max;
\* after a reset (or a fresh client) the next call returns the floor.
C10_ReconnectPolicy ==
    /\ \A i \in 1..Len(policy_log) :
          policy_log[i] # 0 =>
              policy_log[i] = ReconnectBackoff(RunLength(policy_log, i))
    /\ client.reconnect_delay <= STREAM_RECONNECT_MAX_DELAY
    /\ ReturnedDelay(client) =
          ReconnectBackoff(RunLength(policy_log, Len(policy_log)) + 1)

\* seven calls reached the cap, then a reset brought the floor back
C10_Witness ==
    /\ Len(policy_log) = 8
    /\ policy_log[7] = STREAM_RECONNECT_MAX_DELAY
    /\ policy_log[8] = 0
    /\ client.reconnect_delay = STREAM_RECONNECT_MIN_DELAY

\* C11 (as claimed): when the event sequence of a connection ends without
\* an exception while the stop flag is unset, the loop sleeps what
\* get_reconnect_delay returns, as it does after a CommunicationError,
\* before it builds the next transport.
C11_CleanEndSleeps ==
    [][(/\ task_pc = "iter"
        /\ task_pc' \notin {"iter", "save"}
        /\ last_exc' = "none"
        /\ ~should_stop)
       => (task_pc' = "sleep_comm" /\ sleep_arg' = ReturnedDelay(client))]_vars

C12_State ==
    /\ last_exc = "auth" =>
        \/ task_pc = "sleep_auth" /\ sleep_arg = AUTH_RETRY_DELAY
        \/ task_pc = "done" /\ (should_stop \/ cancel_seen)
    /\ task_pc \in {"created", "connect", "sleep_auth"} => ~Connected

C12_Step ==
    /\ (task_pc # "sleep_auth" /\ task_pc' = "sleep_auth") =>
        client'.reconnect_delay = client.reconnect_delay
    /\ (task_pc = "sleep_auth" /\ task_pc' # "sleep_auth") =>
        \/ task_pc' = "connect" /\ client' = FreshClient /\ stream_client'
        \/ task_pc' = "done" /\ (should_stop \/ cancel_seen')

\* C12: an AuthenticationError from connect is followed by a sleep of
\* exactly 300 seconds; entering that sleep leaves the client's reconnect
\* delay as it was; the step after the sleep builds a fresh transport and
\* connects, unless the loop was stopped or cancelled; and while the loop is
\* about to start, connecting or in the authentication sleep (all the
\* states of a run whose connects all fail with it) `connected` is false.
C12_AuthSleepsFixed == [](C12_State) /\ [][C12_Step]_vars

\* after an authentication failure and its sleep of 300 the loop connects
\* a fresh transport
C12_Witness ==
    /\ task_pc = "connect"
    /\ sleep_arg = AUTH_RETRY_DELAY
    /\ client = FreshClient
    /\ ~should_stop
    /\ ~cancel_seen
    /\ ~Connected

C13_State ==
    /\ last_exc = "rate" =>
        \/ task_pc = "sleep_rate"
        \/ task_pc = "done" /\ (should_stop \/ cancel_seen)
    /\ task_pc = "sleep_rate" =>
        /\ last_exc = "rate"
        /\ retry_after_header = "45" => sleep_arg = 45
        /\ retry_after_header = "absent" => sleep_arg = 60
        /\ retry_after_header \in {"45", "absent"}

C13_Step ==
    /\ (task_pc # "sleep_rate" /\ task_pc' = "sleep_rate") =>
        client'.reconnect_delay = client.reconnect_delay
    /\ (task_pc = "sleep_rate" /\ task_pc' # "sleep_rate") =>
        \/ task_pc' = "connect" /\ client' = FreshClient /\ stream_client'
        \/ task_pc' = "done" /\ (should_stop \/ cancel_seen')

\* C13: a RateLimitError from connect is followed by a sleep of exactly the
\* number of seconds in the answer's Retry-After header, 60 when the header
\* is absent; entering that sleep leaves the client's reconnect delay as it
\* was; the step after the sleep builds a fresh transport and connects,
\* unless the loop was stopped or cancelled.
C13_RateLimitSleepsRetryAfter == [](C13_State) /\ [][C13_Step]_vars

\* a 429 without the header was slept 60 s and the loop connects again
C13_Witness ==
    /\ task_pc = "connect"
    /\ retry_after_header = "absent"
    /\ sleep_arg = 60
    /\ client = FreshClient
    /\ ~should_stop
    /\ ~cancel_seen

\* C14: no transport is replaced by the next one while its response is
\* open, and when the loop has ended (by the stop flag, a cancellation, or
\* before it ever ran) the transport built last is closed; so the supervisor
\* never has more than one open transport.
C14_AlwaysDisconnects ==
    /\ ~leaked
    /\ task_pc \in {"none", "created", "done"} => ~IsOpen(client)

\* several transports were built and left through different branches (a
\* communication error, an unexpected error with its 30 s sleep) before the
\* one that is connecting now
C14_Witness ==
    /\ task_pc = "connect"
    /\ sleep_arg = UNEXPECTED_RETRY_DELAY
    /\ lines_read >= 1
    /\ comm_errors >= 1
    /\ ~should_stop

\* C15 (as claimed): whenever the loop is connecting a transport it built,
\* the connect URL carries the account filter and carries updated_at__gt
\* equal to the supervisor's cursor (_last_updated_at: the value loaded from
\* the store, or that of the last vehicle_state dispatched) exactly when the
\* cursor is set.
C15_TransportBoundToCursor ==
    task_pc = "connect" =>
        /\ ConnectUrl(client).account
        /\ ConnectUrl(client).updated_at__gt = last_updated_at

\* what the table is claimed to hold for an event: its payload, field by field
PayloadOf(e) == [present |-> TRUE, updated_at |-> e.updated_at, speed |-> e.speed]

C16_State ==
    /\ \A v \in Vehicles :
        GetVehicleState(v) = IF last_event[v] = NoEvent THEN NoState
                             ELSE PayloadOf(last_event[v])
    /\ GetVehicleState("unknown-id") = NoState

C16_Step ==
    (n_dispatched' = n_dispatched + 1 /\ ~NamesVehicle(dispatched')) =>
        data' = data

\* C16: after any sequence of calls of the event handler, get_vehicle_state
\* of a vehicle is absent when no vehicle_state event named that vehicle and
\* is otherwise the payload of the last such event and nothing else (a field
\* the last payload lacks is not kept from an earlier one); an id the table
\* does not know gives absent; and a call with an event that names no
\* vehicle leaves the table as it was.
C16_LastSnapshotWins == [](C16_State) /\ [][C16_Step]_vars

\* two events named v1, the later one without a speed, and the third call
\* was a vehicle_state record that names no vehicle
C16_Witness ==
    /\ n_dispatched = 3
    /\ resolved = 2
    /\ last_event["v2"] = NoEvent
    /\ last_event["v1"].speed = 0
    /\ GetVehicleState("v1").present
    /\ dispatched.event = "vehicle_state"
    /\ dispatched.vehicle = NoVehicle
    /\ dispatched.updated_at # None

C17_State ==
    /\ notifications = resolved
    /\ notifications > 0 => listener_data = data
    /\ notifications = 0 => listener_data = [v \in Vehicles |-> NoState]

C17_Step ==
    IF n_dispatched' = n_dispatched + 1 /\ NamesVehicle(dispatched')
    THEN /\ notifications' = notifications + 1
         /\ data' = [data EXCEPT ![dispatched'.vehicle] = PayloadOf(dispatched')]
         /\ listener_data' = data'
    ELSE /\ notifications' = notifications
         /\ listener_data' = listener_data

\* C17: after any sequence of calls of the event handler the number of
\* data-changed notifications equals the number of vehicle_state events
\* that named a vehicle (those written to the table); a notification hands
\* listeners the table as it is after that event's write; and a call with
\* any other event (connected, heartbeat, initial_state_sent, disconnected,
\* unknown) or with a record that names no vehicle notifies nobody.
C17_NotifyPerWrite == [](C17_State) /\ [][C17_Step]_vars

\* one written event, one record with an updated_at that named no vehicle,
\* and a heartbeat: one notification
C17_Witness ==
    /\ n_dispatched = 3
    /\ dispatched.event = "heartbeat"
    /\ notifications = 1
    /\ last_event["v1"] # NoEvent
    /\ last_event["v1"].updated_at = None
    /\ last_carried # None

C18_State ==
    /\ last_carried # None => last_updated_at = last_carried
    /\ last_carried = None =>
        (last_updated_at = store /\ pending_save = None /\ task_pc = "iter")
    /\ task_pc = "save" <=> pending_save # None

C18_Step ==
    /\ n_dispatched' = n_dispatched + 1 =>
        IF CarriesUpdatedAt(dispatched')
           /\ dispatched'.updated_at # last_updated_at
        THEN /\ task_pc' = "save"
             /\ pending_save' = dispatched'.updated_at
             /\ store' = store
        ELSE /\ task_pc' = "iter"
             /\ pending_save' = None
             /\ store' = store
             /\ last_updated_at' = last_updated_at
    /\ store' # store =>
        (task_pc = "save" /\ store' = pending_save /\ pending_save' = None)
    /\ n_dispatched' = n_dispatched => last_updated_at' = last_updated_at

\* C18: after any sequence of calls of the event handler the in-memory
\* watermark is the updated_at of the last vehicle_state event that carried
\* one, whether or not it named a vehicle, and the loaded value when none
\* did; a call starts one save of the event's updated_at when that differs
\* from the watermark held before the call, and starts none when it is equal
\* or the event carries none; the store changes only by such a save
\* completing, once.
C18_WatermarkFollowsEvents == [](C18_State) /\ [][C18_Step]_vars

\* two events in a row carried updated_at 2: the first was saved, the second
\* started no save
C18_Witness ==
    /\ n_dispatched = 2
    /\ last_event["v1"].updated_at = 2
    /\ last_event["v2"].updated_at = 2
    /\ last_updated_at = 2
    /\ store = 2
    /\ task_pc = "iter"
    /\ pending_save = None

\* C19 (as claimed): no step of the supervisor, whether it dispatches an
\* event, completes a save, reconnects or restarts, moves the in-memory
\* watermark or the stored one to a smaller value than it held.
C19_CursorMonotonic ==
    [][last_updated_at' >= last_updated_at /\ store' >= store]_vars

C20_Step ==
    /\ (task_pc = "save" /\ task_pc' # "save") =>
        \/ task_pc' = "iter" /\ store' = pending_save
        \/ /\ task_pc' = "sleep_unexpected"
           /\ last_exc' = "unexpected"
           /\ sleep_arg' = UNEXPECTED_RETRY_DELAY
           /\ store' = store
           /\ data' = data
           /\ last_updated_at' = last_updated_at
        \/ task_pc' = "done" /\ cancel_seen'
    /\ (task_pc = "sleep_unexpected" /\ task_pc' # "sleep_unexpected") =>
        \/ task_pc' = "connect" /\ ~should_stop
        \/ task_pc' = "done" /\ (should_stop \/ cancel_seen')

\* C20: when the store's save raises, the loop task does not end: the
\* exception is caught by the catch-all, which logs it and sleeps 30 s;
\* the table and the in-memory watermark keep what the event wrote; and
\* after the sleep the loop connects again unless the stop flag is set or
\* the task was cancelled.
C20_SaveFailureSurvived == [][C20_Step]_vars

\* a save raised (the store lags the watermark), the loop slept 30 s,
\* reconnected and is reading the stream again
C20_Witness ==
    /\ task_pc = "iter"
    /\ sleep_arg = UNEXPECTED_RETRY_DELAY
    /\ last_updated_at = 2
    /\ store = None
    /\ notifications = 1
    /\ lines_read = 1
    /\ ~should_stop
    /\ ~cancel_seen
    /\ Connected

C21_State ==
    /\ ~stream_task => task_pc \in {"none", "done"}
    /\ call_pc = "start_load" => ~stream_task

C21_Step ==
    /\ (stream_task /\ stream_task') =>
        /\ should_stop => should_stop'
        /\ task_pc' = "created" => task_pc = "created"
        /\ last_updated_at' # last_updated_at =>
            (task_pc = "iter" /\ task_pc' = "save")
    /\ (~stream_task /\ stream_task') =>
        /\ call_pc = "start_load"
        /\ call_pc' = "idle"
        /\ last_updated_at' = (IF store # None THEN store ELSE last_updated_at)
        /\ ~should_stop'
        /\ task_pc' = "created"
        /\ ~cancel_pending'
    /\ (call_pc = "idle" /\ call_pc' = "start_load") =>
        (~stream_task /\ task_pc' = task_pc /\ should_stop' = should_stop)

\* C21: while a task is recorded no step clears the stop flag, creates a
\* task or changes the cursor otherwise than by dispatching an event, so a
\* start() called then does nothing; a task is recorded only by a start()
\* that found none recorded, and that step sets the cursor to the stored
\* value when the store holds one, clears the stop flag and creates one
\* task, the earlier one (if any) having ended.
C21_StartOnlyWhenIdle == [](C21_State) /\ [][C21_Step]_vars

\* a second start, after a stop that ended a loop which had dispatched an
\* event: the cursor was reloaded from the store, the flag cleared and the
\* new task not yet run
C21_Witness ==
    /\ stream_task
    /\ task_pc = "created"
    /\ ~should_stop
    /\ ~stopped
    /\ notifications > 0
    /\ store = 2
    /\ last_updated_at = 2
    /\ call_pc = "idle"

C22_State ==
    stopped =>
        /\ should_stop
        /\ ~stream_task
        /\ ~stream_client
        /\ ~Connected
        /\ call_pc = "idle"

C22_Step ==
    /\ (stopped /\ stopped') => UNCHANGED streamVars
    /\ (~stopped /\ stopped') =>
        \/ call_pc = "stop_wait" /\ task_pc = "done"
        \/ call_pc = "idle" /\ ~stream_task

\* C22: whenever async_stop_streaming has returned (and no start followed)
\* the stop flag is set, no task and no transport is referenced and
\* `connected` is false, whether the call found a running loop (it returns
\* once the task has ended) or none; and a further call in that state
\* changes nothing.
C22_StopIdempotent == [](C22_State) /\ [][C22_Step]_vars

\* stop returned after it interrupted a connected loop that was reading the
\* stream; a second stop is possible in this state
C22_Witness ==
    /\ stopped
    /\ task_pc = "done"
    /\ last_exc = "comm"
    /\ client.should_stop
    /\ lines_read >= 1
    /\ ENABLED StopBegin

C23_Step ==
    /\ (should_stop /\ task_pc = "iter") =>
        /\ UNCHANGED <<data, notifications, listener_data, last_updated_at,
                       store, pending_save, initial_state_received>>
        /\ task_pc' # "save"
    /\ (should_stop /\ task_pc = "iter" /\ lines_read' # lines_read
            /\ task_pc' # "iter") =>
        /\ task_pc' = "done"
        /\ ~IsOpen(client')
        /\ sleep_arg' = sleep_arg
    /\ (should_stop /\ task_pc \in {"connect", "iter"} /\ last_exc' = "comm") =>
        /\ task_pc' = "done"
        /\ sleep_arg' = sleep_arg
        /\ client'.reconnect_delay = client.reconnect_delay
        /\ ~IsOpen(client')

\* C23: with the stop flag set, no step of a loop that is reading the
\* stream writes the table, notifies listeners, changes the watermark or
\* starts a save; a line that makes the loop leave the iteration (an event
\* was yielded, or the transport's own flag ended the sequence) takes it
\* through the disconnect to its end without a sleep; and a
\* CommunicationError caught from connect or from the iteration ends the
\* loop without a sleep and with the transport's reconnect delay untouched.
C23_StopFlagEndsWork == [][C23_Step]_vars

\* the loop dispatched one event, the flag was then set, and a second
\* event, with a newer updated_at the transport has tracked, was yielded
\* and not dispatched: the loop ended without ever sleeping
C23_Witness ==
    /\ task_pc = "done"
    /\ should_stop
    /\ ~cancel_seen
    /\ sleep_arg = 0
    /\ last_exc = "none"
    /\ lines_read = 2
    /\ notifications = 1
    /\ last_updated_at = 1
    /\ client.last_updated_at = 2
    /\ ~IsOpen(client)

C24_State == (task_pc = "save") <=> (pending_save # None)

C24_Step ==
    /\ lines_read' # lines_read =>
        /\ task_pc = "iter"
        /\ pending_save = None
        /\ lines_read' = lines_read + 1
    /\ (\/ data' # data
        \/ notifications' # notifications
        \/ listener_data' # listener_data
        \/ (stream_task /\ stream_task' /\ last_updated_at' # last_updated_at)
        \/ pending_save' \notin {pending_save, None}) =>
        lines_read' = lines_read + 1
    /\ (lines_read' # lines_read /\ pending_save' # None) =>
        /\ pending_save' = client'.last_updated_at
        /\ last_updated_at' = pending_save'
    /\ store' # store =>
        (task_pc = "save" /\ store' = pending_save /\ pending_save' = None)

\* C24: a line is read from the transport only while no dispatch is in
\* progress (the loop is in its reading state and no save is awaited); the
\* table write, the notification and the start of the save of an event
\* happen in the step that reads it, for the event the transport has just
\* read; the store is written by the one save that is awaited, with that
\* event's value, before the next line is read.  So events are dispatched
\* one at a time, in the order read, also across a stop and a restart.
C24_DispatchSequential == [](C24_State) /\ [][C24_Step]_vars

\* the first event's save (updated_at 2) has completed and the second
\* event's save (updated_at 1) is awaited
C24_Witness ==
    /\ task_pc = "save"
    /\ lines_read = 2
    /\ notifications = 2
    /\ store = 2
    /\ pending_save = 1
    /\ last_updated_at = 1

\* what the claim takes a Retry-After header to carry
RetryAfterSeconds(h) ==
    CASE h = "absent" -> 60
      [] h = "45" -> 45

Is2xx(st) == st \in 200..299

\* C25 (as claimed): for the stream connect and for a REST request alike,
\* an answer of 401 or 403 raises AuthenticationError; a 429 raises
\* RateLimitError carrying the seconds of its Retry-After header, 60 when
\* it has none; every other answer that is no 2xx and every transport
\* failure raises CommunicationError; and a stream transport is connected
\* after the call exactly when the answer was a 2xx.
C25_SameClassification ==
    answer.api # "none" =>
        /\ answer.status \in {401, 403} => outcome.exc = "auth"
        /\ answer.status = 429 =>
            /\ outcome.exc = "rate"
            /\ answer.retry_after \in {"absent", "45"} =>
                outcome.retry_after = RetryAfterSeconds(answer.retry_after)
        /\ (answer.status \notin {401, 403, 429} /\ ~Is2xx(answer.status))
                => outcome.exc = "comm"
        /\ Is2xx(answer.status) => outcome.exc = "none"
        /\ answer.api = "stream" => (client.connected <=> Is2xx(answer.status))

\* what the claim takes the generator to yield for a line: nothing for a
\* blank line and for a line that is no valid JSON, the decoded value
\* otherwise
RECURSIVE DecodedLines(_)
DecodedLines(ls) ==
    IF ls = <<>> THEN <<>>
    ELSE IF Head(ls).kind \in {"non_object", "object"}
    THEN <<Head(ls)>> \o DecodedLines(Tail(ls))
    ELSE DecodedLines(Tail(ls))

\* C26 (as claimed): as long as nobody disconnected the transport and the
\* connection did not fail, the generator is still running (no line made it
\* end or raise) and it has yielded one value for every line received so
\* far that is non-blank and valid JSON, in the order received.
C26_YieldsValidLines ==
    (gen_pc \in {"running", "unexpected"} /\ ~client.should_stop) =>
        /\ gen_pc = "running"
        /\ Len(yielded) = Len(DecodedLines(received))
        /\ \A i \in 1..Len(yielded) : yielded[i] = DecodedLines(received)[i].event

\* the events among the lines, in order
RECURSIVE EventsIn(_)
EventsIn(ls) ==
    IF ls = <<>> THEN <<>>
    ELSE IF Head(ls).kind = "object"
    THEN <<Head(ls).event>> \o EventsIn(Tail(ls))
    ELSE EventsIn(Tail(ls))

C27_State ==
    /\ gen_pc = "comm_error" =>
        /\ ~client.connected
        /\ yielded = EventsIn(received)
    /\ gen_pc = "error" =>
        /\ yielded = <<>>
        /\ received = <<>>
        /\ ~client.response
        /\ ~client.connected

C27_Step ==
    /\ (gen_pc = "none" /\ gen_pc' # "none") =>
        gen_pc' = IF client.response THEN "running" ELSE "error"
    /\ gen_pc \in {"comm_error", "error", "ended", "unexpected"} =>
        /\ gen_pc' = gen_pc
        /\ yielded' = yielded
        /\ received' = received
        /\ ~client'.connected

C28_State ==
    /\ closes <= 1
    /\ n_disconnects > 0 =>
        /\ client.should_stop
        /\ ~client.connected
        /\ ~client.response
    /\ n_disconnects = 0 => closes = 0

C28_Step ==
    /\ n_disconnects' # n_disconnects =>
        /\ closes' = IF client.response THEN 1 ELSE closes
        /\ UNCHANGED <<gen_pc, received, yielded>>
    /\ (n_disconnects > 0 /\ n_disconnects' # n_disconnects) =>
        (client' = client /\ closes' = closes)
    /\ n_disconnects > 0 => (yielded' = yielded /\ client' = client)

\* C28: after any number of async_disconnect calls the transport's stop
\* flag is set, it is not connected and it holds no response; the response
\* was closed once if the first call found one and never otherwise; a
\* further call changes nothing; and from the first call on the generator
\* yields no event and no step changes the transport.
C28_DisconnectIdempotent == [](C28_State) /\ [][C28_Step]_vars

\* disconnect was called twice on a connected transport that was being
\* read: one close, and the event line that arrived after the first call
\* ended the sequence without being yielded
C28_Witness ==
    /\ n_disconnects = 2
    /\ closes = 1
    /\ gen_pc = "ended"
    /\ Len(received) = 2
    /\ received[2].kind = "object"
    /\ Len(yielded) = 1

C29_Step ==
    (n_dispatched' = n_dispatched + 1 /\ dispatched'.event # "vehicle_state") =>
        /\ data' = data
        /\ notifications' = notifications
        /\ listener_data' = listener_data
        /\ last_updated_at' = last_updated_at
        /\ store' = store
        /\ pending_save' = pending_save
        /\ task_pc' = task_pc
        /\ last_exc' = last_exc
        /\ initial_state_received' =
            (initial_state_received \/ dispatched'.event = "initial_state_sent")

\* C29: a call of the event handler with an event that is no vehicle_state
\* (connected, heartbeat, disconnected, an unknown type, with or without a
\* payload) leaves the table, the listeners, the watermark and the store as
\* they were, starts no save and raises nothing; it leaves the
\* initial-state flag too, except that initial_state_sent sets it.
C29_OtherEventsInert == [][C29_Step]_vars

\* after a vehicle_state with updated_at 1 and an initial_state_sent, a
\* heartbeat carrying a payload with updated_at 2 was dispatched: the
\* watermark is still 1
C29_Witness ==
    /\ n_dispatched = 3
    /\ dispatched.event = "heartbeat"
    /\ dispatched.updated_at = 2
    /\ initial_state_received
    /\ last_carried = 1
    /\ last_updated_at = 1
    /\ resolved = 1
    /\ notifications = 1

(***************************************************************************)
(* Link-paginated fetch: NavirecApiClient._async_get_paginated and         *)
(* _async_get_page (api.py 119-152).  A catalog is a sequence of pages;    *)
(* a page holds its records and its Link header, a list of links each      *)
(* with a rel and the page its URL addresses.  next_url is the page the    *)
(* next GET addresses, None once the loop has ended.                       *)
(***************************************************************************)
MaxPages == 3

MaxPageSize == 2

\* the Link headers a page is answered with: none, or a next and a prev
\* link alone or together in either order
LinkForms == {"none", "prev", "next", "next_prev", "prev_next"}

LinkHeader(form, i) ==
    CASE form = "none" -> <<>>
      [] form = "prev" -> <<[rel |-> "prev", target |-> i - 1]>>
      [] form = "next" -> <<[rel |-> "next", target |-> i + 1]>>
      [] form = "next_prev" -> <<[rel |-> "next", target |-> i + 1],
                                 [rel |-> "prev", target |-> i - 1]>>
      [] form = "prev_next" -> <<[rel |-> "prev", target |-> i - 1],
                                 [rel |-> "next", target |-> i + 1]>>

\* page i of a catalog: its records, named by page and position
Page(i, size, form) ==
    [records |-> [k \in 1..size |-> <<i, k>>], link |-> LinkHeader(form, i)]

\* a catalog a server holds: n pages, every next link addressing a page
\* that exists
Catalog(n, size, form) == [i \in 1..n |-> Page(i, size[i], form[i])]

ParseNext_FirstLinkOnly(link) ==
    IF link # <<>> /\ link[1].rel = "next" THEN link[1].target ELSE None

\* lines 140-147: the URL of the first link of the header that has
\* rel="next", None without one
ParseNext(link) ==
    LET hits == {i \in DOMAIN link : link[i].rel = "next"}
    IN  IF hits = {} THEN None
        ELSE link[CHOOSE i \in hits : \A j \in hits : i <= j].target

PageFrame == UNCHANGED <<pollVars, policy_log, client, should_stop,
                         stream_client, stream_task, tableVars, task_pc,
                         cancel_pending, cancel_seen, sleep_arg, last_exc,
                         comm_errors, lines_read, call_pc, stopped,
                         ctor_raises, retry_after_header, leaked, callLog,
                         httpVars, genVars, hostVars>>

\* one turn of the loop at lines 124-126: GET next_url, take the next URL
\* from the Link header, extend the results with the page's records
PageGet ==
    /\ next_url # None
    /\ n_gets' = n_gets + 1
    /\ results' = results \o pages[next_url].records
    /\ next_url' = ParseNext(pages[next_url].link)
    /\ UNCHANGED <<pages, endpoint>>
    /\ PageFrame

\* the callers of _async_get_paginated: async_get_accounts (90-92),
\* async_get_vehicles (94-108), async_get_sensors (110-117)
Endpoints == {"accounts", "vehicles", "sensors"}

\* the fetch starts at the first page with no result yet (lines 121-122)
InitPages ==
    /\ NoPoll
    /\ policy_log = <<>>
    /\ InitCoordinator
    /\ store = None
    /\ ~ctor_raises
    /\ NoHttp
    /\ NoGen
    /\ NoHost
    /\ \E n \in 1..MaxPages :
        \E size \in [1..n -> 0..MaxPageSize], form \in [1..n -> LinkForms] :
            /\ form[n] \in {"none", "prev"}
            /\ pages = Catalog(n, size, form)
    /\ next_url = 1
    /\ results = <<>>
    /\ n_gets = 0
    /\ endpoint \in Endpoints

NextPages == PageGet

SpecPages == InitPages /\ [][NextPages]_vars

\* C30: a fetch over a catalog whose first N-1 pages carry a rel="next"
\* link and whose N-th page carries none (only rel="prev", or no Link
\* header) issues exactly N GETs and returns the records of pages 1..N in
\* order; until then it has fetched exactly the pages before next_url.
RECURSIVE Concatenation(_, _)
Concatenation(ps, n) ==
    IF n = 0 THEN <<>> ELSE Concatenation(ps, n - 1) \o ps[n].records

CarriesNext(p) == \E i \in DOMAIN p.link : p.link[i].rel = "next"

LastPage(ps) ==
    CHOOSE n \in DOMAIN ps :
        /\ ~CarriesNext(ps[n])
        /\ \A i \in 1..(n - 1) : CarriesNext(ps[i])

C30_PaginatedFetch ==
    pages # <<>> =>
        /\ results = Concatenation(pages, n_gets)
        /\ n_gets <= LastPage(pages)
        /\ next_url # None => next_url = n_gets + 1
        /\ next_url = None => n_gets = LastPage(pages)

\* three non-empty pages fetched, the second with a next and a prev link,
\* the third with a prev link only
C30_Witness ==
    /\ Len(pages) = 3
    /\ \A i \in 1..3 : pages[i].records # <<>>
    /\ pages[2].link = LinkHeader("prev_next", 2)
    /\ pages[3].link = LinkHeader("prev", 3)
    /\ next_url = None
    /\ n_gets = 3
    /\ Len(results) = Len(pages[1].records) + Len(pages[2].records)
                        + Len(pages[3].records)

\* C31: the accounts fetch issues exactly one HTTP request and returns only
\* the first page, whatever Link header the response carries.
C31_AccountsNotPaginated ==
    endpoint = "accounts" =>
        /\ n_gets <= 1
        /\ n_gets = 1 => next_url = None /\ results = pages[1].records

(***************************************************************************)
(* execute_action (commands.py 27-81): one POST, the validation of its     *)
(* answer, then the poll task is spawned and the command returned.         *)
(***************************************************************************)
loopVars == <<client, should_stop, stream_client, stream_task, tableVars,
              task_pc, cancel_pending, cancel_seen, sleep_arg, last_exc,
              comm_errors, lines_read, call_pc, stopped, ctor_raises,
              retry_after_header, leaked, callLog>>

CommandIds == {"c1", "c2"}

\* what async_create_device_command or model_validate raises
ExecFailures == {"NavirecApiClientError", "NavirecApiClientCommunicationError",
                 "NavirecApiClientAuthenticationError", "ValidationError"}

\* line 78: f"navirec_command_{command.id}"
TaskName(id) == [prefix |-> "navirec_command_", id |-> id]

ExecFrame == UNCHANGED <<policy_log, loopVars, httpVars, genVars, pageVars,
                         raceVars, setupVars>>

\* lines 55-58: the call awaits client.async_create_device_command
ExecuteAction ==
    /\ exec_pc = "idle"
    /\ exec_pc' = "post"
    /\ posts' = posts + 1
    /\ UNCHANGED <<spawned, exec_result, pollVars>>
    /\ ExecFrame

ExecFails_StillSpawns ==
    /\ exec_pc = "post"
    /\ exec_pc' = "raised"
    /\ \E x \in ExecFailures : exec_result' = x
    /\ spawned' = Append(spawned, TaskName("c1"))
    /\ UNCHANGED <<posts, pollVars>>
    /\ ExecFrame
\* lines 55-59: the POST or the validation of its answer raises; the
\* exception leaves execute_action
ExecFails ==
    /\ exec_pc = "post"
    /\ exec_pc' = "raised"
    /\ \E x \in ExecFailures : exec_result' = x
    /\ UNCHANGED <<posts, spawned, pollVars>>
    /\ ExecFrame

\* lines 59-81: the answer validates; the poll task is created with the
\* command's id and expiry and the command is returned
ExecSpawn ==
    /\ exec_pc = "post"
    /\ \E id \in CommandIds, e \in {None} \cup 1..MaxExpiry :
        /\ spawned' = Append(spawned, TaskName(id))
        /\ exec_result' = id
        /\ expires_at' = e
    /\ poll_pc' = "check"
    /\ exec_pc' = "returned"
    /\ UNCHANGED <<posts, delay, now, fired, notified, gets, sleeps,
                   last_sleep, last_op>>
    /\ ExecFrame

InitExecute == Init /\ store = None /\ ~ctor_raises

NextExecute ==
    \/ ExecuteAction
    \/ ExecFails
    \/ ExecSpawn
    \/ NextPoll

SpecExecute == InitExecute /\ [][NextExecute]_vars

\* C32: execute_action makes one POST; when it returns, exactly one poll
\* task was spawned, named navirec_command_<id of the returned command>,
\* and that task has not run yet; when the POST or the validation raises,
\* the exception reaches the caller, no task was spawned and no result is
\* emitted.
C32_State ==
    /\ posts = (IF exec_pc = "idle" THEN 0 ELSE 1)
    /\ exec_pc = "returned" =>
        /\ exec_result \in CommandIds
        /\ spawned = <<[prefix |-> "navirec_command_", id |-> exec_result]>>
    /\ exec_pc = "raised" => exec_result \in ExecFailures
    /\ exec_pc # "returned" =>
        /\ spawned = <<>>
        /\ poll_pc = "idle"
        /\ fired = <<>>
        /\ notified = <<>>
        /\ gets = 0

C32_Step ==
    /\ exec_pc' = "returned" /\ exec_pc # "returned" =>
        /\ poll_pc' = "check"
        /\ sleeps' = 0
        /\ gets' = 0
        /\ fired' = <<>>
    /\ exec_pc \in {"returned", "raised"} => UNCHANGED <<exec_pc, exec_result>>

C32_ExecuteSpawnsOnePoll == []C32_State /\ [][C32_Step]_vars

\* the call returned command c2 and its poll task later emitted a result
C32_Witness ==
    /\ exec_pc = "returned"
    /\ exec_result = "c2"
    /\ spawned = <<TaskName("c2")>>
    /\ poll_pc = "done"
    /\ Len(fired) = 1

(***************************************************************************)
(* async_start_streaming called by several callers at once                 *)
(* (coordinator.py 77-90): a call that passed the check of line 79 is      *)
(* suspended at the load of line 83 while another call runs; each caller   *)
(* calls once, stop() is called at any time.  task_pc                      *)
(* follows the task self._stream_task names; orphans counts the loop       *)
(* tasks that were spawned, still run, and are named by nothing.           *)
(***************************************************************************)
Callers == {"a", "b"}

RaceFrame == UNCHANGED <<pollVars, policy_log, httpVars, genVars, pageVars,
                         execVars, setupVars>>

\* line 170: the task has not left _async_stream_loop
Alive == task_pc \notin {"none", "done"}

\* lines 79-80: a task is recorded, the call returns
RaceNoop(c) ==
    /\ starts[c] = "idle"
    /\ stream_task
    /\ starts' = [starts EXCEPT ![c] = "returned"]
    /\ UNCHANGED <<loopVars, orphans>>
    /\ RaceFrame

\* lines 79-83: no task is recorded, the call awaits the load
RaceBegin(c) ==
    /\ starts[c] = "idle"
    /\ ~stream_task
    /\ starts' = [starts EXCEPT ![c] = "load"]
    /\ stopped' = FALSE
    /\ UNCHANGED <<client, should_stop, stream_client, stream_task, tableVars,
                   task_pc, cancel_pending, cancel_seen, sleep_arg, last_exc,
                   comm_errors, lines_read, call_pc, ctor_raises,
                   retry_after_header, leaked, callLog, orphans>>
    /\ RaceFrame

\* lines 83-90: the load returned; the flag is cleared and a task spawned
\* and recorded, whatever self._stream_task named before
RaceLoaded(c) ==
    /\ starts[c] = "load"
    /\ starts' = [starts EXCEPT ![c] = "returned"]
    /\ orphans' = IF Alive THEN orphans + 1 ELSE orphans
    /\ last_updated_at' = IF store # None THEN store ELSE last_updated_at
    /\ should_stop' = FALSE
    /\ stream_task' = TRUE
    /\ task_pc' = "created"
    /\ cancel_pending' = FALSE
    /\ cancel_seen' = FALSE
    /\ sleep_arg' = 0
    /\ last_exc' = "none"
    /\ comm_errors' = 0
    /\ UNCHANGED <<client, stream_client, data, store, listener_data,
                   notifications, initial_state_received, pending_save,
                   lines_read, call_pc, stopped, ctor_raises,
                   retry_after_header, leaked, callLog>>
    /\ RaceFrame

\* line 131: a task nothing names leaves its loop once the flag is set
OrphanExits ==
    /\ orphans > 0
    /\ should_stop
    /\ orphans' = orphans - 1
    /\ UNCHANGED <<loopVars, starts>>
    /\ RaceFrame

InitRace == Init /\ store = None /\ ~ctor_raises

NextRace ==
    \/ TaskNext
    \/ \E c \in Callers : RaceNoop(c)
    \/ \E c \in Callers : RaceBegin(c)
    \/ \E c \in Callers : RaceLoaded(c)
    \/ OrphanExits
    \/ StopBegin
    \/ StopReturn

SpecRace == InitRace /\ [][NextRace]_vars

\* C33: under any interleaving of start() and stop() calls at most one
\* control-loop task is alive, and every alive task is the one the
\* supervisor records.
LoopTasks == (IF task_pc \notin {"none", "done"} THEN 1 ELSE 0) + orphans

C33_OneRecordedTask ==
    /\ LoopTasks <= 1
    /\ orphans = 0
    /\ task_pc \notin {"none", "done"} => stream_task

\* C34: the supervisor's cursor moves to an event's updated_at only in the
\* step that dispatched the event, in which every table entry that changed
\* carries that updated_at; the store takes a value only after the in-memory
\* cursor holds it; a dispatch that raises leaves cursor, store and table
\* as they were, and the transport built after the cooldown filters by
\* nothing later than that unchanged cursor.
C34_Step ==
    /\ (last_updated_at' # last_updated_at /\ call_pc # "start_load") =>
        /\ task_pc = "iter"
        /\ task_pc' = "save"
        /\ pending_save' = last_updated_at'
        /\ \A v \in Vehicles :
            data'[v] # data[v] =>
                data'[v].present /\ data'[v].updated_at = last_updated_at'
    /\ store' # store =>
        /\ task_pc = "save"
        /\ store' = last_updated_at
        /\ UNCHANGED <<last_updated_at, data>>
    /\ (task_pc = "iter" /\ task_pc' = "sleep_unexpected") =>
        UNCHANGED <<last_updated_at, store, data>>
    /\ (task_pc = "sleep_unexpected" /\ task_pc' = "connect") =>
        /\ UNCHANGED <<last_updated_at, store>>
        /\ ConnectUrl(client').updated_at__gt \in {None, last_updated_at}

C34_WatermarkFollowsTable == [][C34_Step]_vars

\* an event raised in its dispatch on a connection that had already moved
\* the cursor; the loop sleeps 30 s with cursor and store at the earlier
\* event's value and the table holding that event's snapshot
C34_Witness ==
    /\ task_pc = "sleep_unexpected"
    /\ last_exc = "unexpected"
    /\ lines_read = 2
    /\ last_updated_at = 1
    /\ store = 1
    /\ client.last_updated_at = 2
    /\ \E v \in Vehicles : data[v].present /\ data[v].updated_at = 1

\* C35: once the loop runs and no save of the watermark is in progress, the
\* store holds the supervisor's in-memory cursor, also after a save that
\* failed.
C35_StoreMatchesCursor ==
    (task_pc # "none" /\ call_pc # "start_load" /\ task_pc # "save"
        /\ pending_save = None) =>
        store = last_updated_at

\* C36: whenever the control loop sleeps before a retry (authentication,
\* rate limit, reconnect backoff, cooldown after an unexpected error) the
\* supervisor's connected query is false.
C36_NotConnectedWhileSleeping == task_pc \in Sleeps => ~Connected

\* C37: the poller issues no status GET at a time at or after the command's
\* expires_at: when the sleep before a poll ends at or after the expiry, the
\* task does not go on to the GET.
C37_NoGetAfterExpiry ==
    poll_pc = "get" => (expires_at = None \/ now < expires_at)

\* C38: no step removes an entry of the table: a vehicle that has a
\* snapshot has one in every later state, through disconnects, reconnects,
\* sleeps, stop() and a following start(); an entry changes only in a step
\* of the loop that reads a line from the stream.
C38_Step ==
    \A v \in Vehicles :
        /\ GetVehicleState(v).present => data'[v].present
        /\ data'[v] # data[v] =>
            /\ task_pc = "iter"
            /\ lines_read' = lines_read + 1
            /\ data'[v].present

C38_TableKeepsEntries == [][C38_Step]_vars

\* a snapshot written on one connection is still there when the loop reads
\* from the transport it built next
C38_Witness ==
    /\ GetVehicleState("v1").present
    /\ ~GetVehicleState("v2").present
    /\ lines_read = 1
    /\ task_pc = "iter"
    /\ Connected
    /\ store = 2
    /\ last_updated_at = 2
    /\ client.last_updated_at = None

\* C39: start() returns without spawning only while a control loop is
\* alive: whenever no call is in progress and a task is recorded (the case
\* in which start() is a no-op), that task has not terminated.
C39_NoopOnlyWhenAlive ==
    (call_pc = "idle" /\ stream_task) => task_pc \notin {"none", "done"}

(***************************************************************************)
(* Config entries and the execute_action service (__init__.py 156-184,     *)
(* services.py).  An entry is absent from the host's registry, in it but   *)
(* not loaded, or loaded; hass.config_entries.async_entries(DOMAIN) gives  *)
(* every entry in the registry, loaded or not.  Each entry has its own     *)
(* coordinator; only the registration of the service is followed here.     *)
(***************************************************************************)
MaxSetups == 4

ConfigEntries == {"e1", "e2", "e3"}

\* hass.config_entries.async_entries(DOMAIN), line 180
AsyncEntries == {e \in ConfigEntries : entries[e] # "absent"}

SetupFrame == UNCHANGED <<pollVars, policy_log, loopVars, httpVars, genVars,
                          pageVars, execVars, raceVars>>

\* async_setup_entry, lines 156-163: the service is registered unless it
\* is registered already
SetupEntry(e) ==
    /\ entries[e] \in {"absent", "not_loaded"}
    /\ n_setups < MaxSetups
    /\ n_setups' = n_setups + 1
    /\ entries' = [entries EXCEPT ![e] = "loaded"]
    /\ has_service' = TRUE
    /\ SetupFrame

\* lines 178-182: the service is removed when the registry holds one entry
RemovesService(e) == Cardinality(AsyncEntries) = 1

\* async_unload_entry, lines 166-184, the platforms unloading
UnloadEntry(e) ==
    /\ entries[e] = "loaded"
    /\ entries' = [entries EXCEPT ![e] = "not_loaded"]
    /\ has_service' = (has_service /\ ~RemovesService(e))
    /\ n_setups' = n_setups
    /\ SetupFrame

\* async_unload_entry with async_unload_platforms returning False
UnloadFails(e) ==
    /\ entries[e] = "loaded"
    /\ entries' = [entries EXCEPT ![e] = "failed_unload"]
    /\ UNCHANGED <<has_service, n_setups>>
    /\ SetupFrame

\* the host removes an entry: it unloads it when loaded (the entry is still
\* in the registry while async_unload_entry runs), then drops it
RemoveEntry(e) ==
    /\ entries[e] \in {"not_loaded", "loaded"}
    /\ entries' = [entries EXCEPT ![e] = "absent"]
    /\ has_service' = IF entries[e] = "loaded"
                      THEN has_service /\ ~RemovesService(e)
                      ELSE has_service
    /\ n_setups' = n_setups
    /\ SetupFrame

InitSetup == Init /\ store = None /\ ~ctor_raises

NextSetup ==
    \/ \E e \in ConfigEntries : SetupEntry(e)
    \/ \E e \in ConfigEntries : UnloadEntry(e)
    \/ \E e \in ConfigEntries : UnloadFails(e)
    \/ \E e \in ConfigEntries : RemoveEntry(e)

SpecSetup == InitSetup /\ [][NextSetup]_vars

\* C40: after any sequence of setups and unloads the execute_action service
\* is registered exactly when at least one config entry is loaded (an entry
\* whose unload failed counts as still loaded).
C40_ServiceIffLoaded ==
    has_service <=>
        \E e \in ConfigEntries : entries[e] \in {"loaded", "failed_unload"}

====
